---- MODULE Spec2Model ----
(***************************************************************************)
(* Restoration Calculator: derived fields, schema validation, the          *)
(* assistance-entry synchronisation and the saved-model store.             *)
(*                                                                         *)
(* Numbers.  A JavaScript number is modelled in fixed point: the integer n *)
(* stands for n / UnitsPerOne, so 0.01 is 2 units and 100 is 20000 units.  *)
(* Sums and differences are exact; a quotient is never formed, a           *)
(* comparison  |a / b| <= p / q  is decided by cross-multiplication.  NaN  *)
(* (the value of an emptied numeric input) and undefined (a missing        *)
(* property) are two reserved values outside the range of real inputs.     *)
(***************************************************************************)
EXTENDS Integers, Sequences, FiniteSets, TLC

VARIABLES
  call,         \* the pure function being applied, with its arguments and result
  form,         \* the live record of the form (react-hook-form values)
  initialData,  \* App state: the snapshot last loaded into the form
  store,        \* localStorage[STORAGE_KEY]: absent, or the list of saved models
  nextId,       \* the number of identifiers crypto.randomUUID has issued
  effectDep,    \* the dependency the synchronisation effect last ran with
  lastEffect,   \* what the effect did to assistanceCosts since the last user event
  activeTab     \* ContextSection state: the method tab that is shown

appVars == <<form, initialData, store, nextId, effectDep, lastEffect, activeTab>>

vars == <<call, form, initialData, store, nextId, effectDep, lastEffect, activeTab>>

\* ------------------------------------------------------------------------
\* JavaScript number semantics
\* ------------------------------------------------------------------------

UnitsPerOne == 200

NaN == -999999999

Undef == -999999998

IsNum(x) == x # NaN /\ x # Undef

Abs(x) == IF x < 0 THEN -x ELSE x

\* x || 0
OrZero(x) == IF IsNum(x) THEN x ELSE 0

\* Number(x) || 0
NumberOrZero(x) == IF IsNum(x) THEN x ELSE 0

\* x ?? d
Nullish(x, d) == IF x = Undef THEN d ELSE x

\* a + b
Add(a, b) == IF IsNum(a) /\ IsNum(b) THEN a + b ELSE NaN

\* a - b
Sub(a, b) == IF IsNum(a) /\ IsNum(b) THEN a - b ELSE NaN

\* x <= 0 (false when x is NaN or undefined)
LteZero(x) == IsNum(x) /\ x <= 0

\* Math.abs(a / b) <= num / den; a / 0 is NaN or an infinity, never <= a bound
AbsRatioLte(a, b, num, den) ==
  /\ IsNum(a) /\ IsNum(b)
  /\ b # 0
  /\ Abs(a) * den <= num * Abs(b)

\* Math.abs(x) < bound
AbsLt(x, bound) == IsNum(x) /\ Abs(x) < bound

Hundred == 100 * UnitsPerOne

\* the literal 0.01 of the sum checks
SumTolerance == UnitsPerOne \div 100

\* RECONCILIATION_TOLERANCE = 0.05 = ToleranceNum / ToleranceDen
ToleranceNum == 5

ToleranceDen == 100

\* a JavaScript object is a function on its property names
Has(obj, key) == key \in DOMAIN obj

\* obj.key of a numeric property; a missing property reads undefined
NumProp(obj, key) == IF Has(obj, key) THEN obj[key] ELSE Undef

\* ------------------------------------------------------------------------
\* utils/computations.ts
\* ------------------------------------------------------------------------

RECURSIVE ReduceCost(_, _, _)
ReduceCost(entries, i, sum) ==
  IF i > Len(entries) THEN sum
  ELSE ReduceCost(entries, i + 1, Add(sum, OrZero(NumProp(entries[i], "cost"))))

\* mutant: sum + a.cost, without the "|| 0"
RECURSIVE ReduceRawCost(_, _, _)
ReduceRawCost(entries, i, sum) ==
  IF i > Len(entries) THEN sum
  ELSE ReduceRawCost(entries, i + 1, Add(sum, NumProp(entries[i], "cost")))

computeTotalAssistanceCost_rawCost(assistanceCosts) == ReduceRawCost(assistanceCosts, 1, 0)

computeTotalAssistanceCost(assistanceCosts) == ReduceCost(assistanceCosts, 1, 0)

\* mutant: the boundary excluded (< in place of <=)
isWithinTolerance_exclusive(declaredUnfavorableCost, computedCost, difference) ==
  IF declaredUnfavorableCost = 0
  THEN computedCost = 0
  ELSE /\ AbsRatioLte(difference, declaredUnfavorableCost, ToleranceNum, ToleranceDen)
       /\ Abs(difference) * ToleranceDen # ToleranceNum * Abs(declaredUnfavorableCost)

\* mutant: no special case for a declared cost of 0
isWithinTolerance_noZeroCase(declaredUnfavorableCost, computedCost, difference) ==
  AbsRatioLte(difference, declaredUnfavorableCost, ToleranceNum, ToleranceDen)

isWithinTolerance(declaredUnfavorableCost, computedCost, difference) ==
  IF declaredUnfavorableCost = 0
  THEN computedCost = 0
  ELSE AbsRatioLte(difference, declaredUnfavorableCost, ToleranceNum, ToleranceDen)

\* mutant: the interaction adjustment left out of the sum
computedUnfavorableCost_noAdjustment(favorableTotalCost, totalAssistanceCost, interactionAdjustment) ==
  Add(favorableTotalCost, totalAssistanceCost)

computedUnfavorableCost(favorableTotalCost, totalAssistanceCost, interactionAdjustment) ==
  Add(Add(favorableTotalCost, totalAssistanceCost), interactionAdjustment)

differenceFromDeclared(declaredUnfavorableCost, computed) ==
  Sub(declaredUnfavorableCost, computed)

costBreakdownSummary(assistanceCosts) ==
  [i \in 1..Len(assistanceCosts) |->
     [name |-> IF assistanceCosts[i].name = "" THEN "(unnamed)" ELSE assistanceCosts[i].name,
      costPerHa |-> OrZero(NumProp(assistanceCosts[i], "cost")),
      phase |-> assistanceCosts[i].phase]]

\* interactionAdjustment: number = 0  (the default applies to undefined)
computeFields(favorableTotalCost, assistanceCosts, declaredUnfavorableCost, interactionAdjustment) ==
  LET adj == IF interactionAdjustment = Undef THEN 0 ELSE interactionAdjustment
      total == computeTotalAssistanceCost(assistanceCosts)
      computed == computedUnfavorableCost(favorableTotalCost, total, adj)
      diff == differenceFromDeclared(declaredUnfavorableCost, computed)
  IN [totalAssistanceCost |-> total,
      computedUnfavorableCost |-> computed,
      differenceFromDeclared |-> diff,
      isWithinTolerance |-> isWithinTolerance(declaredUnfavorableCost, computed, diff),
      costBreakdownSummary |-> costBreakdownSummary(assistanceCosts)]

\* hooks/useComputedFields.ts
useComputedFields(values) ==
  computeFields(values.favorableScenario.totalCost,
                values.assistanceCosts,
                values.unfavorableScenario.totalCost,
                Nullish(NumProp(values, "interactionAdjustment"), 0))

\* a missing object (undefined where an object is expected)
UndefinedObj == [undefined |-> TRUE]

MethodTabIds == <<"natural_regeneration", "anr_30", "seed_dispersal", "seedling_planting">>

\* watch("methodType") || "natural_regeneration"
currentMethodType(values) ==
  IF values.methodType = "" THEN "natural_regeneration" ELSE values.methodType

\* the effect on [currentMethodType]: the active tab follows the method of
\* the record when the two differ
syncActiveTab(tab, values) ==
  IF currentMethodType(values) # tab THEN currentMethodType(values) ELSE tab

\* (Number(d.labor) || 0) + (Number(d.machinery) || 0) + (Number(d.materials) || 0)
distributionSum(d) ==
  NumberOrZero(NumProp(d, "labor")) + NumberOrZero(NumProp(d, "machinery"))
    + NumberOrZero(NumProp(d, "materials"))

methodTabComplete(methodCosts, t) ==
  IF ~Has(methodCosts, t) THEN FALSE
  ELSE LET entry == methodCosts[t] IN
    IF \/ LteZero(NumProp(entry, "implementationCost"))
       \/ LteZero(NumProp(entry, "maintenanceCost"))
    THEN FALSE
    ELSE IF ~Has(entry, "implementationDistribution") \/ ~Has(entry, "maintenanceDistribution")
    THEN FALSE
    ELSE /\ AbsLt(distributionSum(entry.implementationDistribution) - Hundred, SumTolerance)
         /\ AbsLt(distributionSum(entry.maintenanceDistribution) - Hundred, SumTolerance)

allMethodTabsComplete(methodCosts) ==
  IF methodCosts = UndefinedObj THEN FALSE
  ELSE \A i \in 1..Len(MethodTabIds) : methodTabComplete(methodCosts, MethodTabIds[i])

\* ------------------------------------------------------------------------
\* components/sections/SummaryValidationSection.tsx
\* ------------------------------------------------------------------------

\* A quotient num / den kept exact; den = 0 stands for the NaN or infinity
\* that a division by zero yields.
Rat(num, den) == [num |-> num, den |-> den]

ZeroShares == [labor |-> Rat(0, 1), materials |-> Rat(0, 1), machinery |-> Rat(0, 1)]

RECURSIVE ReduceComponentCost(_, _, _)
ReduceComponentCost(components, i, s) ==
  IF i > Len(components) THEN s
  ELSE ReduceComponentCost(components, i + 1, s + OrZero(NumProp(components[i], "cost")))

\* mutant: the shares added up without their weights
RECURSIVE WeightedNumerator_unweighted(_, _, _, _)
WeightedNumerator_unweighted(components, dim, i, acc) ==
  IF i > Len(components) THEN acc
  ELSE WeightedNumerator_unweighted(components, dim, i + 1,
         acc + NumberOrZero(NumProp(components[i].shares, dim)))

\* sum over the components of (Number(c.shares[dim]) || 0) * (c.cost || 0)
RECURSIVE WeightedNumerator(_, _, _, _)
WeightedNumerator(components, dim, i, acc) ==
  IF i > Len(components) THEN acc
  ELSE WeightedNumerator(components, dim, i + 1,
         acc + NumberOrZero(NumProp(components[i].shares, dim))
                 * OrZero(NumProp(components[i], "cost")))

\* the loop of weightedShares: every term is divided by total
weightedLoop(components, total) ==
  [labor |-> Rat(WeightedNumerator(components, "labor", 1, 0), total),
   materials |-> Rat(WeightedNumerator(components, "materials", 1, 0), total),
   machinery |-> Rat(WeightedNumerator(components, "machinery", 1, 0), total)]

\* mutant: the "total === 0" guard left out
weightedShares_noGuard(components) ==
  weightedLoop(components, ReduceComponentCost(components, 1, 0))

weightedShares(components) ==
  LET total == ReduceComponentCost(components, 1, 0) IN
  IF total = 0 THEN ZeroShares ELSE weightedLoop(components, total)

\* ------------------------------------------------------------------------
\* schemas/restorationModel.ts
\*
\* A schema is modelled by the set of issues its parse reports; the parse
\* accepts iff the set is empty.  An object reports the issues of all its
\* fields.  A refinement of an object runs unless a field failed its type
\* check (a range failure leaves the object parsed, so the refinement runs).
\* ------------------------------------------------------------------------

Issue(path, message) == [path |-> path, message |-> message]

IssueIf(cond, path, message) == IF cond THEN {Issue(path, message)} ELSE {}

\* z.number({ message }).min(0, "Cannot be negative")
costIssues(obj, key, path, message) ==
  LET x == NumProp(obj, key) IN
  IF ~IsNum(x) THEN {Issue(path \o <<key>>, message)}
  ELSE IssueIf(x < 0, path \o <<key>>, "Cannot be negative")

\* z.number({ message }).min(0, "Cannot be negative").max(100, "Cannot exceed 100%")
percentIssues(obj, key, path, message) ==
  LET x == NumProp(obj, key) IN
  IF ~IsNum(x) THEN {Issue(path \o <<key>>, message)}
  ELSE IssueIf(x < 0, path \o <<key>>, "Cannot be negative")
         \cup IssueIf(x > Hundred, path \o <<key>>, "Cannot exceed 100%")

\* some field of obj among keys failed the type check of z.number
TypeFailure(obj, keys) == \E k \in keys : ~IsNum(NumProp(obj, k))

\* mutant: the sum check passes at a distance of exactly 0.01 (<= for <)
factorSharesSchema_inclusive(d, path) ==
  percentIssues(d, "labor", path, "Labor % is required")
    \cup percentIssues(d, "materials", path, "Materials % is required")
    \cup percentIssues(d, "machinery", path, "Machinery % is required")
    \cup IF TypeFailure(d, {"labor", "materials", "machinery"}) THEN {}
         ELSE IssueIf(Abs(d.labor + d.materials + d.machinery - Hundred) > SumTolerance,
                      path \o <<"labor">>, "Factor shares must sum to 100%")

\* mutant: the sum failure is reported on the triple, not on its labor field
factorSharesSchema_atTriple(d, path) ==
  percentIssues(d, "labor", path, "Labor % is required")
    \cup percentIssues(d, "materials", path, "Materials % is required")
    \cup percentIssues(d, "machinery", path, "Machinery % is required")
    \cup IF TypeFailure(d, {"labor", "materials", "machinery"}) THEN {}
         ELSE IssueIf(~AbsLt(d.labor + d.materials + d.machinery - Hundred, SumTolerance),
                      path, "Factor shares must sum to 100%")

factorSharesSchema(d, path) ==
  percentIssues(d, "labor", path, "Labor % is required")
    \cup percentIssues(d, "materials", path, "Materials % is required")
    \cup percentIssues(d, "machinery", path, "Machinery % is required")
    \cup IF TypeFailure(d, {"labor", "materials", "machinery"}) THEN {}
         ELSE IssueIf(~AbsLt(d.labor + d.materials + d.machinery - Hundred, SumTolerance),
                      path \o <<"labor">>, "Factor shares must sum to 100%")

\* mutant: the total is compared with the implementation cost alone
scenarioCostsSchema_noMaintenance(d, path) ==
  costIssues(d, "totalCost", path, "Total cost is required")
    \cup costIssues(d, "implementationCost", path, "Implementation cost is required")
    \cup costIssues(d, "maintenanceCost", path, "Maintenance cost is required")
    \cup IF TypeFailure(d, {"totalCost", "implementationCost", "maintenanceCost"}) THEN {}
         ELSE IssueIf(~AbsLt(d.totalCost - d.implementationCost, SumTolerance),
                      path \o <<"totalCost">>, "Total cost must equal Implementation + Maintenance")

scenarioCostsSchema(d, path) ==
  costIssues(d, "totalCost", path, "Total cost is required")
    \cup costIssues(d, "implementationCost", path, "Implementation cost is required")
    \cup costIssues(d, "maintenanceCost", path, "Maintenance cost is required")
    \cup IF TypeFailure(d, {"totalCost", "implementationCost", "maintenanceCost"}) THEN {}
         ELSE IssueIf(~AbsLt(d.totalCost - (d.implementationCost + d.maintenanceCost), SumTolerance),
                      path \o <<"totalCost">>, "Total cost must equal Implementation + Maintenance")

costDistributionSchema(d, path) ==
  percentIssues(d, "labor", path, "Labor % is required")
    \cup percentIssues(d, "materials", path, "Materials % is required")
    \cup percentIssues(d, "machinery", path, "Machinery % is required")
    \cup IF TypeFailure(d, {"labor", "materials", "machinery"}) THEN {}
         ELSE IssueIf(~AbsLt(d.labor + d.materials + d.machinery - Hundred, SumTolerance),
                      path \o <<"labor">>, "Distribution must sum to 100%")

\* a field that must be an object: missing, it fails its type check
Field(obj, key) == IF Has(obj, key) THEN obj[key] ELSE UndefinedObj

\* a field holding a nested object: a missing object is one issue at the
\* field, otherwise the issues are those of the nested schema
objectIssues(obj, key, path, nested) ==
  IF ~Has(obj, key) THEN {Issue(path \o <<key>>, "Invalid input")}
  ELSE nested

\* z.boolean().default(false)
booleanIssues(obj, key, path) ==
  IssueIf(Has(obj, key) /\ obj[key] \notin BOOLEAN, path \o <<key>>, "Invalid input")

\* z.string().min(1, message)
stringIssues(obj, key, path, message) ==
  IF ~Has(obj, key) THEN {Issue(path \o <<key>>, "Invalid input")}
  ELSE IssueIf(obj[key] = "", path \o <<key>>, message)

\* z.enum(options)
enumIssues(obj, key, path, options) ==
  IssueIf(~Has(obj, key) \/ (Has(obj, key) /\ obj[key] \notin options),
          path \o <<key>>, "Invalid option")

contextConstraintEntrySchema(d, path) ==
  costIssues(d, "cost", path, "Cost is required")
    \cup booleanIssues(d, "appliesToImplementation", path)
    \cup booleanIssues(d, "appliesToMaintenance", path)
    \cup objectIssues(d, "distribution", path,
             costDistributionSchema(Field(d, "distribution"), path \o <<"distribution">>))

contextVariablesSchema(d, path) ==
  objectIssues(d, "fireRisk", path,
      contextConstraintEntrySchema(Field(d, "fireRisk"), path \o <<"fireRisk">>))
    \cup objectIssues(d, "grazingPressure", path,
             contextConstraintEntrySchema(Field(d, "grazingPressure"), path \o <<"grazingPressure">>))
    \cup objectIssues(d, "invasiveSpeciesPressure", path,
             contextConstraintEntrySchema(Field(d, "invasiveSpeciesPressure"), path \o <<"invasiveSpeciesPressure">>))
    \cup objectIssues(d, "humanEncroachment", path,
             contextConstraintEntrySchema(Field(d, "humanEncroachment"), path \o <<"humanEncroachment">>))

methodCostEntrySchema(d, path) ==
  costIssues(d, "implementationCost", path, "Implementation cost is required")
    \cup objectIssues(d, "implementationDistribution", path,
             costDistributionSchema(Field(d, "implementationDistribution"), path \o <<"implementationDistribution">>))
    \cup costIssues(d, "maintenanceCost", path, "Maintenance cost is required")
    \cup objectIssues(d, "maintenanceDistribution", path,
             costDistributionSchema(Field(d, "maintenanceDistribution"), path \o <<"maintenanceDistribution">>))

methodCostsSchema(d, path) ==
  objectIssues(d, "natural_regeneration", path,
      methodCostEntrySchema(Field(d, "natural_regeneration"), path \o <<"natural_regeneration">>))
    \cup objectIssues(d, "anr_30", path,
             methodCostEntrySchema(Field(d, "anr_30"), path \o <<"anr_30">>))
    \cup objectIssues(d, "seed_dispersal", path,
             methodCostEntrySchema(Field(d, "seed_dispersal"), path \o <<"seed_dispersal">>))
    \cup objectIssues(d, "seedling_planting", path,
             methodCostEntrySchema(Field(d, "seedling_planting"), path \o <<"seedling_planting">>))

assistanceCostSchema(d, path) ==
  stringIssues(d, "name", path, "Name is required")
    \cup costIssues(d, "cost", path, "Cost is required")
    \cup enumIssues(d, "phase", path, {"implementation", "maintenance", "both"})
    \cup objectIssues(d, "factorShares", path,
             factorSharesSchema(Field(d, "factorShares"), path \o <<"factorShares">>))

\* the index of an array element as a path segment
IndexKey(i) == <<"0", "1", "2", "3", "4", "5", "6", "7">>[i]

\* z.array(assistanceCostSchema)
assistanceCostsIssues(list, path) ==
  UNION {assistanceCostSchema(list[i], path \o <<IndexKey(i)>>) : i \in 1..Len(list)}

\* hiredLabor + familyLabor must sum to 100
laborPairSchema(d, path) ==
  percentIssues(d, "hiredLabor", path, "Hired Labor % is required")
    \cup percentIssues(d, "familyLabor", path, "Family Labor % is required")
    \cup IF TypeFailure(d, {"hiredLabor", "familyLabor"}) THEN {}
         ELSE IssueIf(~AbsLt(d.hiredLabor + d.familyLabor - Hundred, SumTolerance),
                      path \o <<"hiredLabor">>, "Hired + Family labor must sum to 100%")

laborBreakdownSchema(d, path) ==
  objectIssues(d, "implementation", path,
      laborPairSchema(Field(d, "implementation"), path \o <<"implementation">>))
    \cup objectIssues(d, "maintenance", path,
             laborPairSchema(Field(d, "maintenance"), path \o <<"maintenance">>))

\* mutant: the unfavorable scenario is skipped once the favorable one fails
scenarioIssues_firstFailure(r) ==
  LET fav == objectIssues(r, "favorableScenario", <<>>,
                 scenarioCostsSchema(Field(r, "favorableScenario"), <<>> \o <<"favorableScenario">>)) IN
  IF fav # {} THEN fav
  ELSE objectIssues(r, "unfavorableScenario", <<>>,
           scenarioCostsSchema(Field(r, "unfavorableScenario"), <<>> \o <<"unfavorableScenario">>))

\* favorableScenario: scenarioCostsSchema, unfavorableScenario: scenarioCostsSchema
scenarioIssues(r) ==
  objectIssues(r, "favorableScenario", <<>>,
      scenarioCostsSchema(Field(r, "favorableScenario"), <<>> \o <<"favorableScenario">>))
    \cup objectIssues(r, "unfavorableScenario", <<>>,
             scenarioCostsSchema(Field(r, "unfavorableScenario"), <<>> \o <<"unfavorableScenario">>))

restorationModelSchema(r) ==
  stringIssues(r, "ecosystem", <<>>, "Ecosystem is required")
    \cup stringIssues(r, "country", <<>>, "Country is required")
    \cup IssueIf(Has(r, "timeHorizon") /\ r.timeHorizon # 20, <<"timeHorizon">>, "Invalid input")
    \cup enumIssues(r, "methodType", <<>>,
                    {"natural_regeneration", "anr_30", "seed_dispersal", "seedling_planting"})
    \cup percentIssues(r, "enrichmentIntensity", <<>>, "Invalid input")
    \cup objectIssues(r, "methodCosts", <<>>,
             methodCostsSchema(Field(r, "methodCosts"), <<>> \o <<"methodCosts">>))
    \cup objectIssues(r, "contextVariables", <<>>,
             contextVariablesSchema(Field(r, "contextVariables"), <<>> \o <<"contextVariables">>))
    \cup IssueIf(~Has(r, "selectedAssistances"), <<"selectedAssistances">>, "Invalid input")
    \cup scenarioIssues(r)
    \cup (IF ~Has(r, "assistanceCosts") THEN {Issue(<<"assistanceCosts">>, "Invalid input")}
          ELSE assistanceCostsIssues(r.assistanceCosts, <<"assistanceCosts">>))
    \cup IssueIf(Has(r, "interactionAdjustment") /\ r.interactionAdjustment # Undef
                   /\ ~IsNum(r.interactionAdjustment),
                 <<"interactionAdjustment">>, "Invalid input")
    \cup objectIssues(r, "favorableFactorShares", <<>>,
             factorSharesSchema(Field(r, "favorableFactorShares"), <<>> \o <<"favorableFactorShares">>))
    \cup objectIssues(r, "laborBreakdown", <<>>,
             laborBreakdownSchema(Field(r, "laborBreakdown"), <<>> \o <<"laborBreakdown">>))

\* ------------------------------------------------------------------------
\* The form with the assistance sections (components/RestorationForm.tsx),
\* its schema and defaults, the synchronisation effect and the store
\* ------------------------------------------------------------------------

\* JSON.stringify writes null for NaN
Null == -999999997

EMPTY_FACTOR_SHARES == [labor |-> 0, materials |-> 0, machinery |-> 0]

EMPTY_SCENARIO_COSTS == [totalCost |-> 0, implementationCost |-> 0, maintenanceCost |-> 0]

DEFAULT_TIME_HORIZON == 20

DEFAULT_FORM_VALUES ==
  [ecosystem |-> "",
   country |-> "",
   method |-> "",
   timeHorizon |-> DEFAULT_TIME_HORIZON,
   contextVariables |->
     [fireRisk |-> "low", soilDegradation |-> "none", grazingPressure |-> "low",
      invasiveSpeciesPressure |-> "low", humanEncroachment |-> "low",
      seedAvailabilityConstraint |-> "no"],
   selectedAssistances |-> <<>>,
   favorableScenario |-> EMPTY_SCENARIO_COSTS,
   unfavorableScenario |-> EMPTY_SCENARIO_COSTS,
   assistanceCosts |-> <<>>,
   interactionAdjustment |-> 0,
   favorableFactorShares |-> EMPTY_FACTOR_SHARES]

\* the schema of the form with a single method and severity levels
contextVariablesSchemaBasic(d, path) ==
  enumIssues(d, "fireRisk", path, {"low", "medium", "high"})
    \cup enumIssues(d, "soilDegradation", path, {"none", "moderate", "severe"})
    \cup enumIssues(d, "grazingPressure", path, {"low", "medium", "high"})
    \cup enumIssues(d, "invasiveSpeciesPressure", path, {"low", "medium", "high"})
    \cup enumIssues(d, "humanEncroachment", path, {"low", "medium", "high"})
    \cup enumIssues(d, "seedAvailabilityConstraint", path, {"yes", "no"})

\* z.number({ message }).int().min(1).max(100), in whole years
timeHorizonIssues(r) ==
  LET x == NumProp(r, "timeHorizon") IN
  IF ~IsNum(x) THEN {Issue(<<"timeHorizon">>, "Time horizon is required")}
  ELSE IssueIf(x < 1, <<"timeHorizon">>, "Must be at least 1 year")
         \cup IssueIf(x > 100, <<"timeHorizon">>, "Must be <= 100 years")

restorationModelSchemaBasic(r) ==
  stringIssues(r, "ecosystem", <<>>, "Ecosystem is required")
    \cup stringIssues(r, "country", <<>>, "Country is required")
    \cup stringIssues(r, "method", <<>>, "Restoration method is required")
    \cup timeHorizonIssues(r)
    \cup objectIssues(r, "contextVariables", <<>>,
             contextVariablesSchemaBasic(Field(r, "contextVariables"), <<>> \o <<"contextVariables">>))
    \cup IssueIf(~Has(r, "selectedAssistances"), <<"selectedAssistances">>, "Invalid input")
    \cup objectIssues(r, "favorableScenario", <<>>,
             scenarioCostsSchema(Field(r, "favorableScenario"), <<>> \o <<"favorableScenario">>))
    \cup objectIssues(r, "unfavorableScenario", <<>>,
             scenarioCostsSchema(Field(r, "unfavorableScenario"), <<>> \o <<"unfavorableScenario">>))
    \cup (IF ~Has(r, "assistanceCosts") THEN {Issue(<<"assistanceCosts">>, "Invalid input")}
          ELSE assistanceCostsIssues(r.assistanceCosts, <<"assistanceCosts">>))
    \cup IssueIf(Has(r, "interactionAdjustment") /\ r.interactionAdjustment # Undef
                   /\ ~IsNum(r.interactionAdjustment),
                 <<"interactionAdjustment">>, "Invalid input")
    \cup objectIssues(r, "favorableFactorShares", <<>>,
             factorSharesSchema(Field(r, "favorableFactorShares"), <<>> \o <<"favorableFactorShares">>))

\* hooks/useRestorationForm.ts: { ...DEFAULT_FORM_VALUES, ...initialValues }
defaultValues(initialValues) ==
  IF initialValues = UndefinedObj THEN DEFAULT_FORM_VALUES
  ELSE [k \in DOMAIN DEFAULT_FORM_VALUES \cup DOMAIN initialValues |->
          IF k \in DOMAIN initialValues THEN initialValues[k] ELSE DEFAULT_FORM_VALUES[k]]

\* the characters of the catalog identifiers in use (ASSISTANCE_TYPES)
IdChars ==
  [fencing |-> <<"f", "e", "n", "c", "i", "n", "g">>,
   firebreak |-> <<"f", "i", "r", "e", "b", "r", "e", "a", "k">>]

AssistanceIds == DOMAIN IdChars

\* names.join(",")
RECURSIVE Join(_)
Join(names) ==
  IF names = <<>> THEN <<>>
  ELSE IF Len(names) = 1 THEN IdChars[names[1]]
  ELSE IdChars[names[1]] \o <<",">> \o Join(Tail(names))

\* list.map((c) => c.name)
Names(list) == [i \in 1..Len(list) |-> list[i].name]

\* mutant: every selected identifier gets a zero-initialised entry
existingOrNew_alwaysNew(assistanceCosts, id) ==
  [name |-> id, cost |-> 0, phase |-> "implementation",
   factorShares |-> EMPTY_FACTOR_SHARES]

\* assistanceCosts.find((c) => c.name === id) || { name: id, cost: 0, ... }
existingOrNew(assistanceCosts, id) ==
  IF \E j \in 1..Len(assistanceCosts) : assistanceCosts[j].name = id
  THEN assistanceCosts[CHOOSE j \in 1..Len(assistanceCosts) :
                         /\ assistanceCosts[j].name = id
                         /\ \A k \in 1..(j - 1) : assistanceCosts[k].name # id]
  ELSE [name |-> id, cost |-> 0, phase |-> "implementation",
        factorShares |-> EMPTY_FACTOR_SHARES]

\* mutant: an empty selection returns without clearing the entries
syncAssistanceCosts_noClear(selectedAssistances, assistanceCosts) ==
  IF Len(selectedAssistances) = 0
  THEN [write |-> FALSE, value |-> assistanceCosts]
  ELSE LET updated == [i \in 1..Len(selectedAssistances) |->
                         existingOrNew(assistanceCosts, selectedAssistances[i])]
       IN IF Join(Names(assistanceCosts)) # Join(Names(updated))
          THEN [write |-> TRUE, value |-> updated]
          ELSE [write |-> FALSE, value |-> assistanceCosts]

\* mutant: the updated list is written without comparing the names
syncAssistanceCosts_alwaysWrite(selectedAssistances, assistanceCosts) ==
  IF Len(selectedAssistances) = 0
  THEN IF Len(assistanceCosts) > 0
       THEN [write |-> TRUE, value |-> <<>>]
       ELSE [write |-> FALSE, value |-> assistanceCosts]
  ELSE [write |-> TRUE,
        value |-> [i \in 1..Len(selectedAssistances) |->
                     existingOrNew(assistanceCosts, selectedAssistances[i])]]

\* the body of the effect: whether it calls setValue("assistanceCosts", ...)
\* and the list the form holds afterwards
syncAssistanceCosts(selectedAssistances, assistanceCosts) ==
  IF Len(selectedAssistances) = 0
  THEN IF Len(assistanceCosts) > 0
       THEN [write |-> TRUE, value |-> <<>>]
       ELSE [write |-> FALSE, value |-> assistanceCosts]
  ELSE LET updated == [i \in 1..Len(selectedAssistances) |->
                         existingOrNew(assistanceCosts, selectedAssistances[i])]
       IN IF Join(Names(assistanceCosts)) # Join(Names(updated))
          THEN [write |-> TRUE, value |-> updated]
          ELSE [write |-> FALSE, value |-> assistanceCosts]

\* no run of the effect since the last user event
NoEffect == [ran |-> FALSE, matched |-> FALSE, write |-> FALSE, kept |-> TRUE, before |-> <<>>]

\* the effect has run for the current selection: no run is pending
Settled == effectDep.mounted /\ effectDep.dep = Join(form.selectedAssistances)

\* useEffect(..., [selectedAssistances.join(",")]): runs after the mount and
\* after every render in which the joined selection changed
SyncEffect ==
  /\ ~Settled
  /\ LET r == syncAssistanceCosts(form.selectedAssistances, form.assistanceCosts) IN
       /\ form' = [form EXCEPT !.assistanceCosts = r.value]
       /\ lastEffect' = [ran |-> TRUE,
                         matched |-> Names(form.assistanceCosts) = form.selectedAssistances,
                         write |-> r.write,
                         kept |-> r.value = form.assistanceCosts,
                         before |-> form.assistanceCosts]
  /\ effectDep' = [mounted |-> TRUE, dep |-> Join(form.selectedAssistances)]
  /\ UNCHANGED <<call, initialData, store, nextId, activeTab>>

\* seq without its elements equal to x
RECURSIVE Without(_, _)
Without(seq, x) ==
  IF seq = <<>> THEN <<>>
  ELSE IF Head(seq) = x THEN Without(Tail(seq), x)
  ELSE <<Head(seq)>> \o Without(Tail(seq), x)

\* the user ticks the checkbox of an activity that is not selected: the
\* identifier joins the selection after the identifiers already selected
SelectAssistance ==
  /\ Settled
  /\ \E id \in AssistanceIds :
       /\ \A j \in 1..Len(form.selectedAssistances) : form.selectedAssistances[j] # id
       /\ form' = [form EXCEPT !.selectedAssistances = Append(@, id)]
  /\ lastEffect' = NoEffect
  /\ UNCHANGED <<call, initialData, store, nextId, effectDep, activeTab>>

\* the user unticks the checkbox of a selected activity
DeselectAssistance ==
  /\ Settled
  /\ \E j \in 1..Len(form.selectedAssistances) :
       form' = [form EXCEPT !.selectedAssistances = Without(@, form.selectedAssistances[j])]
  /\ lastEffect' = NoEffect
  /\ UNCHANGED <<call, initialData, store, nextId, effectDep, activeTab>>

EntryCostEdits == {0, 5 * UnitsPerOne}

EntryShareEdits == {0, Hundred}

\* register(`assistanceCosts.${index}.cost`, { valueAsNumber: true }), one
\* input per selected activity
EditEntryCost ==
  /\ Settled
  /\ \E i \in 1..Len(form.selectedAssistances), v \in EntryCostEdits :
       /\ i <= Len(form.assistanceCosts)
       /\ form' = [form EXCEPT !.assistanceCosts[i].cost = v]
  /\ lastEffect' = NoEffect
  /\ UNCHANGED <<call, initialData, store, nextId, effectDep, activeTab>>

\* register(`assistanceCosts.${index}.factorShares.labor`, { valueAsNumber: true })
EditEntryShare ==
  /\ Settled
  /\ \E i \in 1..Len(form.selectedAssistances), v \in EntryShareEdits :
       /\ i <= Len(form.assistanceCosts)
       /\ form' = [form EXCEPT !.assistanceCosts[i].factorShares.labor = v]
  /\ lastEffect' = NoEffect
  /\ UNCHANGED <<call, initialData, store, nextId, effectDep, activeTab>>

\* the identification fields and the favorable factor shares, filled in
EditRequiredField ==
  /\ Settled
  /\ \/ \E v \in {"", "Cerrado"} : form' = [form EXCEPT !.ecosystem = v]
     \/ form' = [form EXCEPT !.country = "Brazil", !.method = "Total planting"]
     \/ form' = [form EXCEPT !.favorableFactorShares.labor = Hundred]
  /\ lastEffect' = NoEffect
  /\ UNCHANGED <<call, initialData, store, nextId, effectDep, activeTab>>

\* onClick={() => reset()}: the values return to the form's defaultValues
ResetForm ==
  /\ Settled
  /\ form' = defaultValues(initialData)
  /\ lastEffect' = NoEffect
  /\ UNCHANGED <<call, initialData, store, nextId, effectDep, activeTab>>

\* JSON.parse(JSON.stringify(x)) of a number
jsonNumber(x) == IF x = NaN THEN Null ELSE x

jsonShares(d) == [k \in DOMAIN d |-> jsonNumber(d[k])]

jsonEntry(e) ==
  [name |-> e.name, cost |-> jsonNumber(e.cost), phase |-> e.phase,
   factorShares |-> jsonShares(e.factorShares)]

\* JSON.parse(JSON.stringify(data)) of a record of the form
jsonRecord(r) ==
  [ecosystem |-> r.ecosystem,
   country |-> r.country,
   method |-> r.method,
   timeHorizon |-> jsonNumber(r.timeHorizon),
   contextVariables |-> r.contextVariables,
   selectedAssistances |-> r.selectedAssistances,
   favorableScenario |-> jsonShares(r.favorableScenario),
   unfavorableScenario |-> jsonShares(r.unfavorableScenario),
   assistanceCosts |-> [i \in 1..Len(r.assistanceCosts) |-> jsonEntry(r.assistanceCosts[i])],
   interactionAdjustment |-> jsonNumber(r.interactionAdjustment),
   favorableFactorShares |-> jsonShares(r.favorableFactorShares)]

\* the defaults of the tab-based form
EMPTY_COST_DISTRIBUTION == [labor |-> 0, materials |-> 0, machinery |-> 0]

EMPTY_METHOD_COST_ENTRY ==
  [implementationCost |-> 0,
   implementationDistribution |-> EMPTY_COST_DISTRIBUTION,
   maintenanceCost |-> 0,
   maintenanceDistribution |-> EMPTY_COST_DISTRIBUTION,
   intensiveMaintenanceStartYear |-> 3,
   intensiveMaintenanceEndYear |-> 6,
   intensiveMaintenanceCost |-> 0]

EMPTY_METHOD_COSTS ==
  [t \in {MethodTabIds[i] : i \in 1..Len(MethodTabIds)} |-> EMPTY_METHOD_COST_ENTRY]

EMPTY_CONTEXT_CONSTRAINT ==
  [cost |-> 0, appliesToImplementation |-> FALSE, appliesToMaintenance |-> FALSE,
   distribution |-> [labor |-> 0, materials |-> 0, machinery |-> 0]]

\* DEFAULT_FORM_VALUES of the tab-based form
DEFAULT_TAB_FORM_VALUES ==
  [ecosystem |-> "",
   country |-> "",
   timeHorizon |-> DEFAULT_TIME_HORIZON,
   methodType |-> "natural_regeneration",
   enrichmentIntensity |-> 0,
   methodCosts |-> EMPTY_METHOD_COSTS,
   contextVariables |->
     [k \in {"fireRisk", "grazingPressure", "invasiveSpeciesPressure", "humanEncroachment"}
        |-> EMPTY_CONTEXT_CONSTRAINT],
   selectedAssistances |-> <<>>,
   favorableScenario |-> EMPTY_SCENARIO_COSTS,
   unfavorableScenario |-> EMPTY_SCENARIO_COSTS,
   assistanceCosts |-> <<>>,
   interactionAdjustment |-> 0,
   favorableFactorShares |-> EMPTY_FACTOR_SHARES,
   laborBreakdown |->
     [implementation |-> [hiredLabor |-> 0, familyLabor |-> 0],
      maintenance |-> [hiredLabor |-> 0, familyLabor |-> 0],
      hiredLaborCostPerDay |-> 0]]

\* { ...DEFAULT_FORM_VALUES, ...initialValues } of the tab-based form
defaultTabValues(initialValues) ==
  IF initialValues = UndefinedObj THEN DEFAULT_TAB_FORM_VALUES
  ELSE [k \in DOMAIN DEFAULT_TAB_FORM_VALUES \cup DOMAIN initialValues |->
          IF k \in DOMAIN initialValues THEN initialValues[k]
          ELSE DEFAULT_TAB_FORM_VALUES[k]]

DistributionKeys == {"implementationDistribution", "maintenanceDistribution"}

\* the output of methodCostEntrySchema: the keys the schema declares
methodCostEntryOutput(e) ==
  [k \in {"implementationCost", "implementationDistribution",
          "maintenanceCost", "maintenanceDistribution"} |-> e[k]]

\* the output of restorationModelSchema for a record it accepts: keys the
\* schema does not declare are stripped
restorationModelOutput(r) ==
  [k \in DOMAIN DEFAULT_TAB_FORM_VALUES |->
     IF k = "methodCosts"
     THEN [t \in DOMAIN r.methodCosts |-> methodCostEntryOutput(r.methodCosts[t])]
     ELSE IF k = "laborBreakdown"
     THEN [implementation |-> r.laborBreakdown.implementation,
           maintenance |-> r.laborBreakdown.maintenance]
     ELSE r[k]]

jsonMethodEntry(e) ==
  [k \in DOMAIN e |-> IF k \in DistributionKeys THEN jsonShares(e[k]) ELSE jsonNumber(e[k])]

jsonContextEntry(e) ==
  [cost |-> jsonNumber(e.cost),
   appliesToImplementation |-> e.appliesToImplementation,
   appliesToMaintenance |-> e.appliesToMaintenance,
   distribution |-> jsonShares(e.distribution)]

jsonLaborBreakdown(d) ==
  [k \in DOMAIN d |-> IF k = "hiredLaborCostPerDay" THEN jsonNumber(d[k]) ELSE jsonShares(d[k])]

\* JSON.parse(JSON.stringify(data)) of a record of the tab-based form
jsonTabRecord(r) ==
  [ecosystem |-> r.ecosystem,
   country |-> r.country,
   timeHorizon |-> jsonNumber(r.timeHorizon),
   methodType |-> r.methodType,
   enrichmentIntensity |-> jsonNumber(r.enrichmentIntensity),
   methodCosts |-> [t \in DOMAIN r.methodCosts |-> jsonMethodEntry(r.methodCosts[t])],
   contextVariables |->
     [k \in DOMAIN r.contextVariables |-> jsonContextEntry(r.contextVariables[k])],
   selectedAssistances |-> r.selectedAssistances,
   favorableScenario |-> jsonShares(r.favorableScenario),
   unfavorableScenario |-> jsonShares(r.unfavorableScenario),
   assistanceCosts |-> [i \in 1..Len(r.assistanceCosts) |-> jsonEntry(r.assistanceCosts[i])],
   interactionAdjustment |-> jsonNumber(r.interactionAdjustment),
   favorableFactorShares |-> jsonShares(r.favorableFactorShares),
   laborBreakdown |-> jsonLaborBreakdown(r.laborBreakdown)]

\* JSON.parse(JSON.stringify(data)) of a record of either form
jsonData(data) ==
  IF "methodCosts" \in DOMAIN data THEN jsonTabRecord(data) ELSE jsonRecord(data)

\* utils/storage.ts. The storage key is absent, holds the empty string, holds
\* text that is not JSON ("corrupt"), holds JSON that is not an array
\* ("value"), or holds an array of saved models ("list").
\* loadModels: `if (!raw) return []`, JSON.parse(raw), `catch { return [] }`
loadModels ==
  IF store.kind \in {"absent", "empty"} THEN <<>>
  ELSE IF store.kind = "corrupt" THEN <<>>
  ELSE IF store.kind = "value" THEN store.value
  ELSE store.models

\* Array.isArray of what loadModels returns
loadModelsIsArray == store.kind # "value"

\* mutant: the new entry replaces the stored list
saveModel_overwrite(data, id) ==
  [kind |-> "list", models |-> <<[id |-> id, data |-> jsonData(data)]>>]

\* mutant: a save writes the record over the last stored entry
saveModel_inPlace(data, id) ==
  [kind |-> "list",
   models |-> IF loadModels = <<>> THEN <<[id |-> id, data |-> jsonData(data)]>>
              ELSE [loadModels EXCEPT ![Len(loadModels)].data = jsonData(data)]]

\* models.push(entry); localStorage.setItem(STORAGE_KEY, JSON.stringify(models))
saveModel(data, id) ==
  [kind |-> "list", models |-> Append(loadModels, [id |-> id, data |-> jsonData(data)])]

\* mutant: the entries after the deleted one go too
deleteModel_truncate(id) ==
  [kind |-> "list",
   models |-> IF \E k \in 1..Len(loadModels) : loadModels[k].id = id
              THEN SubSeq(loadModels, 1,
                          (CHOOSE k \in 1..Len(loadModels) :
                             /\ loadModels[k].id = id
                             /\ \A j \in 1..(k - 1) : loadModels[j].id # id) - 1)
              ELSE loadModels]

\* localStorage.setItem(STORAGE_KEY, JSON.stringify(loadModels().filter((m) => m.id !== id)))
deleteModel(id) ==
  [kind |-> "list", models |-> SelectSeq(loadModels, LAMBDA m : m.id # id)]

MaxSaves == 1

\* the form and the saved-models panel are mounted anew (key={savedKey})
Remount(initialValues) ==
  /\ form' = defaultValues(initialValues)
  /\ effectDep' = [mounted |-> FALSE, dep |-> <<>>]
  /\ lastEffect' = NoEffect

\* handleSubmit(onSubmit): the resolver validates, onSubmit saves, onSaved remounts
SaveModel ==
  /\ Settled
  /\ nextId < MaxSaves
  /\ restorationModelSchemaBasic(form) = {}
  /\ store' = saveModel(form, nextId + 1)
  /\ nextId' = nextId + 1
  /\ Remount(initialData)
  /\ UNCHANGED <<call, initialData, activeTab>>

\* handleLoad(m.data): setInitialData(data); setSavedKey((k) => k + 1)
LoadSnapshot ==
  /\ Settled
  /\ \E k \in 1..Len(loadModels) :
       /\ initialData' = loadModels[k].data
       /\ Remount(loadModels[k].data)
  /\ UNCHANGED <<call, store, nextId, activeTab>>

\* handleDelete(m.id): deleteModel(id); refresh()
DeleteModel ==
  /\ Settled
  /\ \E k \in 1..Len(loadModels) : store' = deleteModel(loadModels[k].id)
  /\ lastEffect' = NoEffect
  /\ UNCHANGED <<call, form, initialData, nextId, effectDep, activeTab>>

InitApp ==
  /\ form = DEFAULT_FORM_VALUES
  /\ initialData = UndefinedObj
  /\ store = [kind |-> "absent"]
  /\ nextId = 0
  /\ effectDep = [mounted |-> FALSE, dep |-> <<>>]
  /\ lastEffect = NoEffect
  /\ activeTab = MethodTabIds[1]

Init == call = [fn |-> "none"] /\ InitApp

Next ==
  \/ SyncEffect
  \/ SelectAssistance
  \/ DeselectAssistance
  \/ EditEntryCost
  \/ EditEntryShare
  \/ EditRequiredField
  \/ ResetForm
  \/ SaveModel
  \/ LoadSnapshot
  \/ DeleteModel

Spec == Init /\ [][Next]_vars

\* ------------------------------------------------------------------------
\* Inputs of the derived-field calculator
\* ------------------------------------------------------------------------

MaxEntries == 2

Phases == {"implementation", "maintenance", "both"}

EmptyFactorShares == [labor |-> 0, materials |-> 0, machinery |-> 0]

\* 0, 1, 5 and 800 and 300 (in units), an emptied input
EntryCostInputs == {0, 1, 5, 800 * UnitsPerOne, 300 * UnitsPerOne, NaN}

EntryInputs ==
  {[name |-> "fencing", cost |-> c, phase |-> "implementation", factorShares |-> EmptyFactorShares] :
      c \in EntryCostInputs}
  \cup {[name |-> "fencing", phase |-> "both", factorShares |-> EmptyFactorShares]}

RECURSIVE SeqsUpTo(_, _)
SeqsUpTo(S, n) ==
  IF n = 0 THEN {<<>>}
  ELSE LET shorter == SeqsUpTo(S, n - 1) IN
       shorter \cup {Append(q, x) : q \in {r \in shorter : Len(r) = n - 1}, x \in S}

EntryListInputs == SeqsUpTo(EntryInputs, MaxEntries)

FavorableInputs == {0, 94, 95, 96, 100, 5000 * UnitsPerOne, NaN}

DeclaredInputs == {0, 100, 6000 * UnitsPerOne, 6500 * UnitsPerOne, -100, NaN}

AdjustmentInputs == {0, 1, -1, 5, -50 * UnitsPerOne, NaN, Undef}

\* method-cost entries: a filled tab, and one departure from it each
FullDistribution == [labor |-> Hundred, materials |-> 0, machinery |-> 0]

FilledMethodEntry ==
  [implementationCost |-> 1000 * UnitsPerOne, implementationDistribution |-> FullDistribution,
   maintenanceCost |-> 500 * UnitsPerOne, maintenanceDistribution |-> FullDistribution]

MethodEntryInputs ==
  { FilledMethodEntry,
    [FilledMethodEntry EXCEPT !.implementationCost = 0],
    [FilledMethodEntry EXCEPT !.maintenanceCost = -1],
    [FilledMethodEntry EXCEPT !.implementationCost = NaN],
    [FilledMethodEntry EXCEPT !.maintenanceCost = NaN],
    [implementationCost |-> 1000 * UnitsPerOne, maintenanceCost |-> 500 * UnitsPerOne,
     maintenanceDistribution |-> FullDistribution],
    [FilledMethodEntry EXCEPT !.maintenanceDistribution.labor = Hundred - SumTolerance],
    [FilledMethodEntry EXCEPT !.implementationDistribution.materials = SumTolerance - 1],
    [FilledMethodEntry EXCEPT !.implementationDistribution.machinery = NaN] }

\* every choice of present tabs, each holding one of the entries above
MethodCostsInputs ==
  {UndefinedObj} \cup
  UNION { [tabs -> MethodEntryInputs] : tabs \in SUBSET {MethodTabIds[i] : i \in 1..Len(MethodTabIds)} }

MaxComponents == 2

ShareInputs ==
  { FullDistribution,
    [labor |-> 50 * UnitsPerOne, materials |-> 30 * UnitsPerOne, machinery |-> 20 * UnitsPerOne],
    [labor |-> NaN, materials |-> 0, machinery |-> Hundred],
    EmptyFactorShares }

\* small costs keep cost * share within 32 bits
ComponentCostInputs == {0, NaN, 500, -500, 1000}

ComponentInputs == {[cost |-> c, shares |-> sh] : c \in ComponentCostInputs, sh \in ShareInputs}

ComponentListInputs == SeqsUpTo(ComponentInputs, MaxComponents)

\* ------------------------------------------------------------------------
\* Calls of the derived-field calculator
\* ------------------------------------------------------------------------

NoCall == [fn |-> "none"]

CallComputeFields ==
  /\ call = NoCall
  /\ UNCHANGED appVars
  /\ \E fav \in FavorableInputs, entries \in EntryListInputs,
     declared \in DeclaredInputs, adj \in AdjustmentInputs :
    call' = [fn |-> "computeFields", favorableTotalCost |-> fav, assistanceCosts |-> entries,
             declaredUnfavorableCost |-> declared, interactionAdjustment |-> adj,
             result |-> computeFields(fav, entries, declared, adj)]

FormValues(fav, entries, declared, adj) ==
  LET base == [favorableScenario |-> [totalCost |-> fav],
               unfavorableScenario |-> [totalCost |-> declared],
               assistanceCosts |-> entries]
  IN IF adj = Undef THEN base
     ELSE [favorableScenario |-> [totalCost |-> fav],
           unfavorableScenario |-> [totalCost |-> declared],
           assistanceCosts |-> entries,
           interactionAdjustment |-> adj]

CallUseComputedFields ==
  /\ call = NoCall
  /\ UNCHANGED appVars
  /\ \E fav \in FavorableInputs, entries \in EntryListInputs,
     declared \in DeclaredInputs, adj \in AdjustmentInputs :
    call' = [fn |-> "useComputedFields", values |-> FormValues(fav, entries, declared, adj),
             result |-> useComputedFields(FormValues(fav, entries, declared, adj))]

CallComputeTotalAssistanceCost ==
  /\ call = NoCall
  /\ UNCHANGED appVars
  /\ \E entries \in EntryListInputs :
    call' = [fn |-> "computeTotalAssistanceCost", assistanceCosts |-> entries,
             result |-> computeTotalAssistanceCost(entries)]

CallAllMethodTabsComplete ==
  /\ call = NoCall
  /\ UNCHANGED appVars
  /\ \E methodCosts \in MethodCostsInputs :
    call' = [fn |-> "allMethodTabsComplete", methodCosts |-> methodCosts,
             result |-> allMethodTabsComplete(methodCosts)]

CallWeightedShares ==
  /\ call = NoCall
  /\ UNCHANGED appVars
  /\ \E components \in ComponentListInputs :
    call' = [fn |-> "weightedShares", components |-> components,
             result |-> weightedShares(components)]

\* the caller takes the result; the next call starts from there
Return ==
  /\ call # NoCall
  /\ call' = NoCall
  /\ UNCHANGED appVars

InitCalc == call = NoCall /\ InitApp

\* Strings are sequences of one-character strings.
Whitespace == {" ", "\t"}

\* s.slice(0, n)
sliceTo(s, n) == SubSeq(s, 1, IF Len(s) < n THEN Len(s) ELSE n)

\* s.replace(/[T:]/g, "-")
replaceSeparators(s) == [i \in 1..Len(s) |-> IF s[i] \in {"T", ":"} THEN "-" ELSE s[i]]

\* the rest of s after its leading whitespace
RECURSIVE skipWhitespace(_)
skipWhitespace(s) ==
  IF s # <<>> /\ Head(s) \in Whitespace THEN skipWhitespace(Tail(s)) ELSE s

\* mutant: every whitespace character becomes an underscore (/\s/g)
replaceWhitespace_each(s) ==
  [i \in 1..Len(s) |-> IF s[i] \in Whitespace THEN "_" ELSE s[i]]

\* s.replace(/\s+/g, "_")
RECURSIVE replaceWhitespace(_)
replaceWhitespace(s) ==
  IF s = <<>> THEN <<>>
  ELSE IF Head(s) \in Whitespace THEN <<"_">> \o replaceWhitespace(skipWhitespace(s))
  ELSE <<Head(s)>> \o replaceWhitespace(Tail(s))

\* s || "unknown"
orUnknown(s) == IF s = <<>> THEN <<"u", "n", "k", "n", "o", "w", "n">> ELSE s

\* utils/computations.ts: generateExportFilename, with new Date().toISOString()
\* as third argument
generateExportFilename(ecosystem, method, iso) ==
  LET ts == replaceSeparators(sliceTo(iso, 19))
      eco == orUnknown(replaceWhitespace(ecosystem))
      mth == orUnknown(replaceWhitespace(method))
  IN <<"r", "e", "s", "t", "o", "r", "a", "t", "i", "o", "n", "_">> \o eco \o <<"_">> \o mth \o <<"_">> \o ts \o <<".", "j", "s", "o", "n">>

MaxNameLen == 3

\* characters of a name: a letter, the letter T, a colon, a blank and a tab
NameChars == {"a", "T", ":", " ", "\t"}

\* new Date().toISOString()
IsoInputs ==
  { <<"2", "0", "2", "6", "-", "1", "1", "-", "0", "2", "T", "0", "9", ":", "0", "5", ":", "0", "7", ".", "1", "2", "3", "Z">>,
    <<"1", "9", "9", "9", "-", "1", "2", "-", "3", "1", "T", "2", "3", ":", "5", "9", ":", "5", "9", ".", "9", "9", "9", "Z">> }

CallGenerateExportFilename ==
  /\ call = NoCall
  /\ UNCHANGED appVars
  /\ \E eco \in SeqsUpTo(NameChars, MaxNameLen), mth \in SeqsUpTo(NameChars, 2),
        iso \in IsoInputs :
       call' = [fn |-> "generateExportFilename", ecosystem |-> eco, method |-> mth,
                iso |-> iso, result |-> generateExportFilename(eco, mth, iso)]

NextCalc ==
  \/ CallComputeFields
  \/ CallGenerateExportFilename
  \/ CallUseComputedFields
  \/ CallComputeTotalAssistanceCost
  \/ CallAllMethodTabsComplete
  \/ CallWeightedShares
  \/ Return

SpecCalc == InitCalc /\ [][NextCalc]_vars

\* ------------------------------------------------------------------------
\* Inputs and calls of the schemas
\* ------------------------------------------------------------------------

MaxDelta == 3

Deltas == (0 - MaxDelta)..MaxDelta

\* components near 25, 25 and 50 percent, at the ends of the range and outside it
LaborInputs == {25 * UnitsPerOne + d : d \in Deltas} \cup {0, -1, Hundred + 1, NaN}

MaterialsInputs == {25 * UnitsPerOne + d : d \in Deltas} \cup {0, Hundred}

MachineryInputs == {50 * UnitsPerOne + d : d \in Deltas} \cup {0, Hundred, Undef}

TripleInputs ==
  {[labor |-> l, materials |-> m, machinery |-> k] :
     l \in LaborInputs, m \in MaterialsInputs, k \in MachineryInputs \ {Undef}}
  \cup {[labor |-> l, materials |-> m] : l \in LaborInputs, m \in MaterialsInputs}

\* scenario costs near 1000 = 400 + 600
ScenarioInputs ==
  {[totalCost |-> 1000 * UnitsPerOne + d, implementationCost |-> i, maintenanceCost |-> m] :
     d \in Deltas,
     i \in {400 * UnitsPerOne, 400 * UnitsPerOne + 1, -1, NaN},
     m \in {600 * UnitsPerOne, 601 * UnitsPerOne, 600 * UnitsPerOne - 1}}
  \cup {[totalCost |-> 0, implementationCost |-> 0, maintenanceCost |-> 0]}

FullLaborPair == [hiredLabor |-> Hundred, familyLabor |-> 0]

FilledContextEntry ==
  [cost |-> 100 * UnitsPerOne, appliesToImplementation |-> TRUE,
   appliesToMaintenance |-> FALSE, distribution |-> FullDistribution]

FilledScenario ==
  [totalCost |-> 1000 * UnitsPerOne, implementationCost |-> 400 * UnitsPerOne,
   maintenanceCost |-> 600 * UnitsPerOne]

\* a record of the tab-based form that passes the schema
FilledRecord ==
  [ecosystem |-> "Cerrado",
   country |-> "Brazil",
   timeHorizon |-> 20,
   methodType |-> "natural_regeneration",
   enrichmentIntensity |-> 0,
   methodCosts |-> [t \in {MethodTabIds[i] : i \in 1..Len(MethodTabIds)} |-> FilledMethodEntry],
   contextVariables |->
     [k \in {"fireRisk", "grazingPressure", "invasiveSpeciesPressure", "humanEncroachment"}
        |-> FilledContextEntry],
   selectedAssistances |-> <<>>,
   favorableScenario |-> FilledScenario,
   unfavorableScenario |-> FilledScenario,
   assistanceCosts |-> <<>>,
   interactionAdjustment |-> 0,
   favorableFactorShares |-> FullDistribution,
   laborBreakdown |-> [implementation |-> FullLaborPair, maintenance |-> FullLaborPair,
                       hiredLaborCostPerDay |-> 0]]

ParseTriple ==
  /\ call = NoCall
  /\ UNCHANGED appVars
  /\ \E d \in TripleInputs :
    call' = [fn |-> "parseTriple", triple |-> d,
             factorShares |-> factorSharesSchema(d, <<>>),
             costDistribution |-> costDistributionSchema(d, <<>>)]

ParseScenarioCosts ==
  /\ call = NoCall
  /\ UNCHANGED appVars
  /\ \E d \in ScenarioInputs :
    call' = [fn |-> "scenarioCostsSchema", scenario |-> d,
             issues |-> scenarioCostsSchema(d, <<>>)]

ParseRestorationModel ==
  /\ call = NoCall
  /\ UNCHANGED appVars
  /\ \E fav \in ScenarioInputs, unfav \in ScenarioInputs :
       LET r == [FilledRecord EXCEPT !.favorableScenario = fav, !.unfavorableScenario = unfav]
       IN call' = [fn |-> "restorationModelSchema", record |-> r,
                   issues |-> restorationModelSchema(r)]

\* factor shares that pass, that are out of range, that miss a number, that
\* sum to 50
FactorShareInputs ==
  { FullDistribution,
    [labor |-> 150 * UnitsPerOne, materials |-> 0, machinery |-> 0],
    [labor |-> NaN, materials |-> 80 * UnitsPerOne, machinery |-> 80 * UnitsPerOne],
    [labor |-> 50 * UnitsPerOne, materials |-> 0, machinery |-> 0] }

LaborPairInputs ==
  { FullLaborPair,
    [hiredLabor |-> 50 * UnitsPerOne, familyLabor |-> 0],
    [hiredLabor |-> NaN, familyLabor |-> 0] }

ScenarioFailureInputs ==
  { FilledScenario,
    [totalCost |-> 1000 * UnitsPerOne, implementationCost |-> 400 * UnitsPerOne,
     maintenanceCost |-> 601 * UnitsPerOne],
    [totalCost |-> 1000 * UnitsPerOne, implementationCost |-> NaN,
     maintenanceCost |-> 600 * UnitsPerOne] }

\* restorationModelSchema.safeParse on records failing in several sub-structures
ParseFailingRecord ==
  /\ call = NoCall
  /\ UNCHANGED appVars
  /\ \E shares \in FactorShareInputs, pair \in LaborPairInputs,
        fav \in ScenarioFailureInputs, dist \in {FullDistribution, EMPTY_FACTOR_SHARES} :
       LET r == [FilledRecord EXCEPT !.favorableFactorShares = shares,
                                     !.laborBreakdown.implementation = pair,
                                     !.favorableScenario = fav,
                                     !.methodCosts.anr_30.implementationDistribution = dist]
       IN call' = [fn |-> "restorationModelSchema", record |-> r,
                   issues |-> restorationModelSchema(r)]

\* x.toFixed(digits) of a number x >= 0, as a number: the nearest multiple of
\* 10^-digits, the larger one of two that are equally near
toFixed(x, digits) ==
  LET step == IF digits = 0 THEN UnitsPerOne ELSE UnitsPerOne \div 10
  IN ((x + step \div 2) \div step) * step

\* mutant: the indicator is shown for a sum of 0 too
sumIndicator_alwaysShown(sum) ==
  IF AbsLt(sum - Hundred, SumTolerance)
  THEN [badge |-> "ok", warning |-> FALSE]
  ELSE [badge |-> "warn", sigma |-> toFixed(sum, 0),
        warning |-> TRUE, currently |-> toFixed(sum, 1)]

\* the badge next to a distribution label and the warning under it:
\* {filled && ...}, Math.abs(sum - 100) < 0.01 ? "✓ 100%" : `Σ = ${sum.toFixed(0)}%`,
\* "Currently: ${sum.toFixed(1)}%."
sumIndicator(sum) ==
  IF ~(sum > 0) THEN [badge |-> "none", warning |-> FALSE]
  ELSE IF AbsLt(sum - Hundred, SumTolerance)
  THEN [badge |-> "ok", warning |-> FALSE]
  ELSE [badge |-> "warn", sigma |-> toFixed(sum, 0),
        warning |-> TRUE, currently |-> toFixed(sum, 1)]

\* CostEstimatesSection: distSum
distSum(d) ==
  NumberOrZero(NumProp(d, "labor")) + NumberOrZero(NumProp(d, "machinery"))
    + NumberOrZero(NumProp(d, "materials"))

\* LaborBreakdownSection: implSum, maintSum
laborSum(d) ==
  NumberOrZero(NumProp(d, "hiredLabor")) + NumberOrZero(NumProp(d, "familyLabor"))

\* pairs of labor shares near 50 + 50, empty, and with an emptied input
PairInputs ==
  {[hiredLabor |-> h, familyLabor |-> f] :
     h \in {0, 50 * UnitsPerOne, 50 * UnitsPerOne + 1, 50 * UnitsPerOne + 2, Hundred, NaN},
     f \in {0, 50 * UnitsPerOne, 50 * UnitsPerOne - 1}}

\* CostEstimatesSection renders the indicator of one context distribution;
\* the schema judges the same values
RenderDistributionIndicator ==
  /\ call = NoCall
  /\ UNCHANGED appVars
  /\ \E d \in TripleInputs :
       call' = [fn |-> "indicator", group |-> "distribution", values |-> d,
                sum |-> distSum(d), indicator |-> sumIndicator(distSum(d)),
                issues |-> costDistributionSchema(d, <<>>)]

\* LaborBreakdownSection renders the indicator of one phase
RenderLaborIndicator ==
  /\ call = NoCall
  /\ UNCHANGED appVars
  /\ \E d \in PairInputs :
       call' = [fn |-> "indicator", group |-> "labor", values |-> d,
                sum |-> laborSum(d), indicator |-> sumIndicator(laborSum(d)),
                issues |-> laborPairSchema(d, <<>>)]

\* obj with the value at a path of nested objects replaced
RECURSIVE SetAt(_, _, _)
SetAt(obj, path, v) ==
  IF Len(path) = 1 THEN [obj EXCEPT ![path[1]] = v]
  ELSE [obj EXCEPT ![path[1]] = SetAt(obj[path[1]], Tail(path), v)]

\* the numeric leaves of a record of the tab-based form
MethodLeaves ==
  {<<"methodCosts", MethodTabIds[i], k>> :
     i \in 1..Len(MethodTabIds), k \in {"implementationCost", "maintenanceCost"}}
    \cup {<<"methodCosts", MethodTabIds[i], d, k>> :
            i \in 1..Len(MethodTabIds), d \in DistributionKeys,
            k \in {"labor", "materials", "machinery"}}

ContextLeaves ==
  {<<"contextVariables", c, "cost">> :
     c \in {"fireRisk", "grazingPressure", "invasiveSpeciesPressure", "humanEncroachment"}}
    \cup {<<"contextVariables", c, "distribution", k>> :
            c \in {"fireRisk", "grazingPressure", "invasiveSpeciesPressure", "humanEncroachment"},
            k \in {"labor", "materials", "machinery"}}

ScenarioLeaves ==
  {<<s, k>> : s \in {"favorableScenario", "unfavorableScenario"},
              k \in {"totalCost", "implementationCost", "maintenanceCost"}}

LaborLeaves ==
  {<<"laborBreakdown", ph, k>> :
     ph \in {"implementation", "maintenance"}, k \in {"hiredLabor", "familyLabor"}}
    \cup {<<"laborBreakdown", "hiredLaborCostPerDay">>}

RecordLeaves ==
  MethodLeaves \cup ContextLeaves \cup ScenarioLeaves \cup LaborLeaves
    \cup {<<"favorableFactorShares", k>> : k \in {"labor", "materials", "machinery"}}
    \cup {<<"enrichmentIntensity">>, <<"interactionAdjustment">>}

\* values below, at the ends of and above the range of a percentage
LeafInputs == {-1, 0, Hundred, Hundred + 1}

\* an assistance entry that passes the schema
FilledAssistance ==
  [name |-> "fencing", cost |-> 5 * UnitsPerOne, phase |-> "implementation",
   factorShares |-> FullDistribution]

\* restorationModelSchema.safeParse on a valid record with one leaf replaced
ParseLeaf ==
  /\ call = NoCall
  /\ UNCHANGED appVars
  /\ \E v \in LeafInputs :
       \/ \E p \in RecordLeaves :
            LET r == SetAt(FilledRecord, p, v)
            IN call' = [fn |-> "restorationModelSchema", record |-> r,
                        issues |-> restorationModelSchema(r), leaf |-> p, value |-> v]
       \/ \E p \in {<<"cost">>, <<"factorShares", "labor">>} :
            LET r == [FilledRecord EXCEPT !.selectedAssistances = <<"fencing">>,
                        !.assistanceCosts = <<SetAt(FilledAssistance, p, v)>>]
            IN call' = [fn |-> "restorationModelSchema", record |-> r,
                        issues |-> restorationModelSchema(r),
                        leaf |-> <<"assistanceCosts", "0">> \o p, value |-> v]

NextSchema ==
  \/ ParseTriple
  \/ ParseScenarioCosts
  \/ ParseRestorationModel
  \/ ParseFailingRecord
  \/ ParseLeaf
  \/ RenderDistributionIndicator
  \/ RenderLaborIndicator
  \/ Return

SpecSchema == InitCalc /\ [][NextSchema]_vars

\* ------------------------------------------------------------------------
\* The tab-based form (RestorationForm with the method-tab gate), its
\* submit and export buttons and the saved-models panel
\* ------------------------------------------------------------------------

\* METHOD_TABS[].defaultEnrichment
defaultEnrichment ==
  [natural_regeneration |-> 0, anr_30 |-> 50 * UnitsPerOne,
   seed_dispersal |-> Hundred, seedling_planting |-> Hundred]

\* const methodsComplete = allMethodTabsComplete(values.methodCosts)
methodsComplete(values) == allMethodTabsComplete(values.methodCosts)

\* mutant: the record is saved without the resolver's validation
submitOutcome_noValidation(values) ==
  IF ~methodsComplete(values) THEN "disabled" ELSE "saved"

\* mutant: the record is saved whatever the method tabs hold
submitOutcome_noGate(values) ==
  IF restorationModelSchema(values) # {} THEN "invalid" ELSE "saved"

\* what pressing Save does: the button is disabled while the method tabs
\* are incomplete; handleSubmit runs the resolver and calls onSubmit only
\* with a record the schema accepts; onSubmit checks the tabs again
\* mutant: a record out of tolerance is refused
submitOutcome_withinTolerance(values) ==
  IF ~methodsComplete(values) THEN "disabled"
  ELSE IF restorationModelSchema(values) # {} THEN "invalid"
  ELSE IF ~useComputedFields(values).isWithinTolerance THEN "invalid"
  ELSE "saved"

submitOutcome(values) ==
  IF ~methodsComplete(values) THEN "disabled"
  ELSE IF restorationModelSchema(values) # {} THEN "invalid"
  ELSE IF ~allMethodTabsComplete(restorationModelOutput(values).methodCosts) THEN "incomplete"
  ELSE "saved"

\* mutant: the export button is never disabled
exportDisabled_never(values) == FALSE

\* <ExportButton data={values} disabled={!methodsComplete} />
exportDisabled(values) == ~methodsComplete(values)

\* the tabs whose inputs are edited
TabInputs == {"natural_regeneration", "anr_30"}

MethodCostEdits == {0, 1000 * UnitsPerOne, NaN}

DistributionEdits == {0, Hundred}

LaborShareEdits == {Hundred, 50 * UnitsPerOne}

\* mutant: a tab change that leaves the enrichment intensity as it was
TabChangeAny_keepEnrichment ==
  /\ \E i \in 1..Len(MethodTabIds) :
       /\ form' = [form EXCEPT !.methodType = MethodTabIds[i]]
       /\ activeTab' = MethodTabIds[i]
  /\ call' = NoCall
  /\ UNCHANGED <<initialData, store, nextId, effectDep, lastEffect>>

\* handleTabChange(tabId)
TabChange ==
  /\ \E t \in TabInputs :
       /\ form' = [form EXCEPT !.methodType = t, !.enrichmentIntensity = defaultEnrichment[t]]
       /\ activeTab' = syncActiveTab(t, form')
  /\ call' = NoCall
  /\ UNCHANGED <<initialData, store, nextId, effectDep, lastEffect>>

\* register(`methodCosts.${activeTab}.implementationCost`, { valueAsNumber: true })
EditMethodCost ==
  /\ \E v \in MethodCostEdits :
       form' = [form EXCEPT !.methodCosts[activeTab].implementationCost = v]
  /\ call' = NoCall
  /\ UNCHANGED <<initialData, store, nextId, effectDep, lastEffect, activeTab>>

\* register(`methodCosts.${activeTab}.implementationDistribution.labor`, ...)
EditMethodDistribution ==
  /\ \E v \in DistributionEdits :
       form' = [form EXCEPT !.methodCosts[activeTab].implementationDistribution.labor = v]
  /\ call' = NoCall
  /\ UNCHANGED <<initialData, store, nextId, effectDep, lastEffect, activeTab>>

\* register(`contextVariables.${c.key}.distribution.labor`, { valueAsNumber: true })
EditContextDistribution ==
  /\ \E v \in DistributionEdits :
       form' = [form EXCEPT !.contextVariables.fireRisk.distribution.labor = v]
  /\ call' = NoCall
  /\ UNCHANGED <<initialData, store, nextId, effectDep, lastEffect, activeTab>>

\* register("laborBreakdown.implementation.hiredLabor", { valueAsNumber: true })
EditLaborShare ==
  /\ \E v \in LaborShareEdits :
       form' = [form EXCEPT !.laborBreakdown.implementation.hiredLabor = v]
  /\ call' = NoCall
  /\ UNCHANGED <<initialData, store, nextId, effectDep, lastEffect, activeTab>>

\* register("ecosystem")
EditEcosystem ==
  /\ \E v \in {"", "Cerrado"} : form' = [form EXCEPT !.ecosystem = v]
  /\ call' = NoCall
  /\ UNCHANGED <<initialData, store, nextId, effectDep, lastEffect, activeTab>>

\* onClick={() => reset()}
ResetTabForm ==
  /\ form' = defaultTabValues(initialData)
  /\ activeTab' = syncActiveTab(activeTab, form')
  /\ call' = NoCall
  /\ UNCHANGED <<initialData, store, nextId, effectDep, lastEffect>>

\* a submit whose save does not re-mount the form
SubmitTabForm_keepValues ==
  /\ nextId < MaxSaves
  /\ call' = [fn |-> "submit", outcome |-> submitOutcome(form)]
  /\ IF submitOutcome(form) = "saved"
     THEN /\ store' = saveModel(restorationModelOutput(form), nextId + 1)
          /\ nextId' = nextId + 1
     ELSE UNCHANGED <<store, nextId>>
  /\ UNCHANGED <<form, initialData, effectDep, lastEffect, activeTab>>

\* handleSubmit(onSubmit): saveModel(data) and onSaved() when nothing refuses
SubmitTabForm ==
  /\ nextId < MaxSaves
  /\ call' = [fn |-> "submit", outcome |-> submitOutcome(form)]
  /\ IF submitOutcome(form) = "saved"
     THEN /\ store' = saveModel(restorationModelOutput(form), nextId + 1)
          /\ nextId' = nextId + 1
          /\ form' = defaultTabValues(initialData)
          /\ activeTab' = currentMethodType(form')
     ELSE UNCHANGED <<store, nextId, form, activeTab>>
  /\ UNCHANGED <<initialData, effectDep, lastEffect>>

\* handleExport: exportToJsonFile(data, filename) writes JSON.stringify(data)
ExportJson ==
  /\ ~exportDisabled(form)
  /\ call' = [fn |-> "export", file |-> jsonTabRecord(form)]
  /\ UNCHANGED appVars

\* handleLoad(m.data) from the saved-models panel
LoadIntoTabForm ==
  /\ \E k \in 1..Len(loadModels) :
       /\ initialData' = loadModels[k].data
       /\ form' = defaultTabValues(loadModels[k].data)
       /\ activeTab' = currentMethodType(form')
  /\ call' = NoCall
  /\ UNCHANGED <<store, nextId, effectDep, lastEffect>>

\* handleDelete(m.id) from the saved-models panel
DeleteFromPanel ==
  /\ \E k \in 1..Len(loadModels) : store' = deleteModel(loadModels[k].id)
  /\ call' = NoCall
  /\ UNCHANGED <<form, initialData, nextId, effectDep, lastEffect, activeTab>>

\* a record saved in an earlier session
StoredTabRecord == jsonTabRecord(restorationModelOutput(FilledRecord))

\* a record that passes the schema with a declared unfavorable total of 2000
\* against a computed one of 1000
UnreconciledRecord ==
  [FilledRecord EXCEPT !.unfavorableScenario =
     [totalCost |-> 2000 * UnitsPerOne, implementationCost |-> 800 * UnitsPerOne,
      maintenanceCost |-> 1200 * UnitsPerOne]]

\* what localStorage holds when the application starts
StoredAtStart ==
  { [kind |-> "absent"],
    [kind |-> "list", models |-> <<[id |-> 0, data |-> StoredTabRecord]>>],
    [kind |-> "list",
     models |-> <<[id |-> 0, data |-> jsonTabRecord(restorationModelOutput(UnreconciledRecord))]>>] }

InitTabs ==
  /\ call = NoCall
  /\ form = DEFAULT_TAB_FORM_VALUES
  /\ initialData = UndefinedObj
  /\ store \in StoredAtStart
  /\ nextId = 0
  /\ effectDep = [mounted |-> FALSE, dep |-> <<>>]
  /\ lastEffect = NoEffect
  /\ activeTab = currentMethodType(form)

NextTabs ==
  \/ TabChange
  \/ EditMethodCost
  \/ EditMethodDistribution
  \/ EditContextDistribution
  \/ EditLaborShare
  \/ EditEcosystem
  \/ ResetTabForm
  \/ SubmitTabForm
  \/ ExportJson
  \/ LoadIntoTabForm
  \/ DeleteFromPanel

SpecTabs == InitTabs /\ [][NextTabs]_vars

\* ------------------------------------------------------------------------
\* The tab-based form filled in from the defaults, nothing in storage. The
\* user fills the form from top to bottom: the inputs of each method tab in
\* their order, then the constraint cards, then the labor phases.
\* ------------------------------------------------------------------------

\* handleTabChange(tabId) on any of the four tabs
TabChangeAny ==
  /\ \E i \in 1..Len(MethodTabIds) :
       /\ form' = [form EXCEPT !.methodType = MethodTabIds[i],
                               !.enrichmentIntensity = defaultEnrichment[MethodTabIds[i]]]
       /\ activeTab' = syncActiveTab(MethodTabIds[i], form')
  /\ call' = NoCall
  /\ UNCHANGED <<initialData, store, nextId, effectDep, lastEffect>>

\* register(`methodCosts.${activeTab}.implementationCost`): a cost typed in
FillImplementationCost ==
  /\ form.methodCosts[activeTab].implementationCost = 0
  /\ form' = [form EXCEPT !.methodCosts[activeTab].implementationCost = 1000 * UnitsPerOne]
  /\ call' = NoCall
  /\ UNCHANGED <<initialData, store, nextId, effectDep, lastEffect, activeTab>>

\* register(`methodCosts.${activeTab}.implementationDistribution.labor`)
FillImplementationDistribution ==
  /\ form.methodCosts[activeTab].implementationCost # 0
  /\ form.methodCosts[activeTab].implementationDistribution.labor = 0
  /\ form' = [form EXCEPT !.methodCosts[activeTab].implementationDistribution.labor = Hundred]
  /\ call' = NoCall
  /\ UNCHANGED <<initialData, store, nextId, effectDep, lastEffect, activeTab>>

\* register(`methodCosts.${activeTab}.maintenanceCost`)
FillMaintenanceCost ==
  /\ form.methodCosts[activeTab].implementationDistribution.labor # 0
  /\ form.methodCosts[activeTab].maintenanceCost = 0
  /\ form' = [form EXCEPT !.methodCosts[activeTab].maintenanceCost = 500 * UnitsPerOne]
  /\ call' = NoCall
  /\ UNCHANGED <<initialData, store, nextId, effectDep, lastEffect, activeTab>>

\* register(`methodCosts.${activeTab}.maintenanceDistribution.labor`)
FillMaintenanceDistribution ==
  /\ form.methodCosts[activeTab].maintenanceCost # 0
  /\ form.methodCosts[activeTab].maintenanceDistribution.labor = 0
  /\ form' = [form EXCEPT !.methodCosts[activeTab].maintenanceDistribution.labor = Hundred]
  /\ call' = NoCall
  /\ UNCHANGED <<initialData, store, nextId, effectDep, lastEffect, activeTab>>

\* CONTEXT_CONSTRAINTS, in the order of the cards
ContextKeys == <<"fireRisk", "grazingPressure", "invasiveSpeciesPressure", "humanEncroachment">>

\* register(`contextVariables.${c.key}.distribution.labor`) of the first card
\* not yet filled
FillContextDistribution ==
  /\ allMethodTabsComplete(form.methodCosts)
  /\ \E i \in 1..Len(ContextKeys) :
       /\ form.contextVariables[ContextKeys[i]].distribution.labor = 0
       /\ \A j \in 1..(i - 1) : form.contextVariables[ContextKeys[j]].distribution.labor # 0
       /\ form' = [form EXCEPT !.contextVariables[ContextKeys[i]].distribution.labor = Hundred]
  /\ call' = NoCall
  /\ UNCHANGED <<initialData, store, nextId, effectDep, lastEffect, activeTab>>

\* register("laborBreakdown.implementation.hiredLabor"), then
\* register("laborBreakdown.maintenance.hiredLabor")
FillLaborShare ==
  /\ \A i \in 1..Len(ContextKeys) : form.contextVariables[ContextKeys[i]].distribution.labor # 0
  /\ \/ /\ form.laborBreakdown.implementation.hiredLabor = 0
        /\ form' = [form EXCEPT !.laborBreakdown.implementation.hiredLabor = Hundred]
     \/ /\ form.laborBreakdown.implementation.hiredLabor # 0
        /\ form.laborBreakdown.maintenance.hiredLabor = 0
        /\ form' = [form EXCEPT !.laborBreakdown.maintenance.hiredLabor = Hundred]
  /\ call' = NoCall
  /\ UNCHANGED <<initialData, store, nextId, effectDep, lastEffect, activeTab>>

\* register("country")
EditCountry ==
  /\ \E v \in {"", "Brazil"} : form' = [form EXCEPT !.country = v]
  /\ call' = NoCall
  /\ UNCHANGED <<initialData, store, nextId, effectDep, lastEffect, activeTab>>

InitFresh ==
  /\ call = NoCall
  /\ form = DEFAULT_TAB_FORM_VALUES
  /\ initialData = UndefinedObj
  /\ store = [kind |-> "absent"]
  /\ nextId = 0
  /\ effectDep = [mounted |-> FALSE, dep |-> <<>>]
  /\ lastEffect = NoEffect
  /\ activeTab = currentMethodType(form)

NextFresh ==
  \/ TabChangeAny
  \/ FillImplementationCost
  \/ FillImplementationDistribution
  \/ FillMaintenanceCost
  \/ FillMaintenanceDistribution
  \/ FillContextDistribution
  \/ FillLaborShare
  \/ EditEcosystem
  \/ EditCountry
  \/ ResetTabForm
  \/ SubmitTabForm
  \/ ExportJson

\* the user keeps acting
SpecFresh == InitFresh /\ [][NextFresh]_vars /\ WF_vars(NextFresh)

\* ------------------------------------------------------------------------
\* Calls of utils/storage.ts on every content of the storage key
\* ------------------------------------------------------------------------

MaxStored == 2

\* ids of saved models; crypto.randomUUID() draws one that is not in use
IdPool == 0..(MaxStored + 1)

\* records that were saved
SavedData ==
  { jsonTabRecord(restorationModelOutput(FilledRecord)),
    jsonTabRecord(restorationModelOutput([FilledRecord EXCEPT !.ecosystem = "Amazon"])) }

\* JSON values that are not arrays: null and an object
NonListValues == { [json |-> "null"], [json |-> "object"] }

StorageContents ==
  { [kind |-> "absent"], [kind |-> "empty"], [kind |-> "corrupt"] }
    \cup { [kind |-> "value", value |-> v] : v \in NonListValues }
    \cup { [kind |-> "list", models |-> l] :
             l \in SeqsUpTo([id : 0..1, data : SavedData], MaxStored) }

\* loadModels()
CallLoadModels ==
  /\ call = NoCall
  /\ call' = [fn |-> "loadModels", content |-> store, threw |-> FALSE,
              isArray |-> loadModelsIsArray, result |-> loadModels]
  /\ UNCHANGED appVars

\* saveModel(data): models.push throws a TypeError when loadModels returned a
\* value that is not an array
CallSaveModel ==
  /\ call = NoCall
  /\ \E data \in {FilledRecord, [FilledRecord EXCEPT !.ecosystem = "Amazon"]} :
       IF ~loadModelsIsArray
       THEN /\ call' = [fn |-> "saveModel", content |-> store, threw |-> TRUE]
            /\ UNCHANGED appVars
       ELSE /\ Len(loadModels) <= MaxStored
            /\ \E id \in IdPool \ {loadModels[k].id : k \in 1..Len(loadModels)} :
                 /\ call' = [fn |-> "saveModel", content |-> store, threw |-> FALSE,
                             before |-> loadModels, id |-> id,
                             data |-> restorationModelOutput(data)]
                 /\ store' = saveModel(restorationModelOutput(data), id)
            /\ UNCHANGED <<form, initialData, nextId, effectDep, lastEffect, activeTab>>

\* deleteModel(id): .filter throws a TypeError on a value that is not an array
CallDeleteModel ==
  /\ call = NoCall
  /\ \E id \in IdPool :
       IF ~loadModelsIsArray
       THEN /\ call' = [fn |-> "deleteModel", content |-> store, threw |-> TRUE]
            /\ UNCHANGED appVars
       ELSE /\ call' = [fn |-> "deleteModel", content |-> store, threw |-> FALSE,
                        before |-> loadModels, id |-> id]
            /\ store' = deleteModel(id)
            /\ UNCHANGED <<form, initialData, nextId, effectDep, lastEffect, activeTab>>

InitStore ==
  /\ call = NoCall
  /\ form = DEFAULT_TAB_FORM_VALUES
  /\ initialData = UndefinedObj
  /\ store \in StorageContents
  /\ nextId = 0
  /\ effectDep = [mounted |-> FALSE, dep |-> <<>>]
  /\ lastEffect = NoEffect
  /\ activeTab = currentMethodType(form)

NextStore ==
  \/ CallLoadModels
  \/ CallSaveModel
  \/ CallDeleteModel
  \/ Return

SpecStore == InitStore /\ [][NextStore]_vars

\* ------------------------------------------------------------------------
\* Properties of the derived-field calculator
\* ------------------------------------------------------------------------

\* the sum of the costs that are numbers, from the last entry to the first
RECURSIVE SumOfCosts(_)
SumOfCosts(entries) ==
  IF entries = <<>> THEN 0
  ELSE LET last == entries[Len(entries)]
           c == IF "cost" \in DOMAIN last /\ last.cost # NaN /\ last.cost # Undef
                THEN last.cost ELSE 0
       IN SumOfCosts(SubSeq(entries, 1, Len(entries) - 1)) + c

\* C1: for a declared unfavorable cost above 0, isWithinTolerance is true iff
\* |declared - computed| / declared <= 0.05 (that is 20 * |declared - computed|
\* <= declared, boundary included), and differenceFromDeclared is declared - computed.
C1_ToleranceRule ==
  call.fn = "computeFields" =>
    LET d == call.declaredUnfavorableCost
        c == call.result.computedUnfavorableCost
    IN (IsNum(d) /\ d > 0 /\ IsNum(c)) =>
         /\ call.result.isWithinTolerance = (20 * Abs(d - c) <= d)
         /\ call.result.differenceFromDeclared = d - c

\* the boundary: the computed cost is exactly 5% below the declared one and passes
C1_Witness ==
  /\ call.fn = "computeFields"
  /\ call.declaredUnfavorableCost = 100
  /\ call.result.computedUnfavorableCost = 95
  /\ call.result.differenceFromDeclared = 5
  /\ call.result.isWithinTolerance

\* C2: with a declared unfavorable cost of exactly 0, isWithinTolerance is true
\* iff the computed cost is exactly 0; a non-zero computed cost never passes.
C2_ZeroDeclared ==
  (call.fn = "computeFields" /\ call.declaredUnfavorableCost = 0) =>
    call.result.isWithinTolerance = (call.result.computedUnfavorableCost = 0)

\* declared 0 against computed 5 (not within), reached
C2_Witness ==
  /\ call.fn = "computeFields"
  /\ call.declaredUnfavorableCost = 0
  /\ call.result.computedUnfavorableCost = 5
  /\ ~call.result.isWithinTolerance

\* declared 0 against computed 0 (within), reached
C2_WitnessZero ==
  /\ call.fn = "computeFields"
  /\ call.declaredUnfavorableCost = 0
  /\ call.result.computedUnfavorableCost = 0
  /\ call.result.isWithinTolerance

\* C5: computedUnfavorableCost = favorableTotal + total assistance cost +
\* interactionAdjustment for every sign of the adjustment, and the reactive
\* driver computes with adjustment 0 when the record has no interactionAdjustment.
C5_Additive ==
  /\ (call.fn = "computeFields"
        /\ IsNum(call.favorableTotalCost) /\ IsNum(call.interactionAdjustment)) =>
       call.result.computedUnfavorableCost =
         call.favorableTotalCost + SumOfCosts(call.assistanceCosts) + call.interactionAdjustment
  /\ (call.fn = "useComputedFields"
        /\ IsNum(call.values.favorableScenario.totalCost)
        /\ ("interactionAdjustment" \in DOMAIN call.values
              => IsNum(call.values.interactionAdjustment))) =>
       call.result.computedUnfavorableCost =
         call.values.favorableScenario.totalCost + SumOfCosts(call.values.assistanceCosts)
           + (IF "interactionAdjustment" \in DOMAIN call.values
              THEN call.values.interactionAdjustment ELSE 0)

\* favorable 5000, entries 800 and 300, adjustment -50: 6050
C5_Witness ==
  /\ call.fn = "computeFields"
  /\ call.favorableTotalCost = 5000 * UnitsPerOne
  /\ Len(call.assistanceCosts) = 2
  /\ NumProp(call.assistanceCosts[1], "cost") = 800 * UnitsPerOne
  /\ NumProp(call.assistanceCosts[2], "cost") = 300 * UnitsPerOne
  /\ call.interactionAdjustment = -50 * UnitsPerOne
  /\ call.result.computedUnfavorableCost = 6050 * UnitsPerOne

\* the driver on a record without interactionAdjustment
C5_WitnessAbsent ==
  /\ call.fn = "useComputedFields"
  /\ "interactionAdjustment" \notin DOMAIN call.values
  /\ call.values.favorableScenario.totalCost = 95
  /\ call.result.computedUnfavorableCost = 100

\* C6: computeTotalAssistanceCost is the sum of the entries' costs, an entry
\* whose cost is missing or NaN counting 0; the empty list gives 0.
C6_TotalAssistance ==
  call.fn = "computeTotalAssistanceCost" =>
    /\ call.result = SumOfCosts(call.assistanceCosts)
    /\ (call.assistanceCosts = <<>> => call.result = 0)

\* a list with one entry without a numeric cost and one of cost 5
C6_Witness ==
  /\ call.fn = "computeTotalAssistanceCost"
  /\ Len(call.assistanceCosts) = 2
  /\ NumProp(call.assistanceCosts[1], "cost") = NaN
  /\ "cost" \notin DOMAIN call.assistanceCosts[2]
  /\ call.result = 0

C6_WitnessMixed ==
  /\ call.fn = "computeTotalAssistanceCost"
  /\ Len(call.assistanceCosts) = 2
  /\ NumProp(call.assistanceCosts[1], "cost") = NaN
  /\ NumProp(call.assistanceCosts[2], "cost") = 5
  /\ call.result = 5

\* a positive number
Positive(x) == x # NaN /\ x # Undef /\ x > 0

\* the three components of a distribution sum to 100 within 0.01, an empty
\* component counting 0
SumsToHundred(d) ==
  LET part(k) == IF k \in DOMAIN d /\ d[k] # NaN /\ d[k] # Undef THEN d[k] ELSE 0
      sum == part("labor") + part("materials") + part("machinery")
  IN Hundred - SumTolerance < sum /\ sum < Hundred + SumTolerance

TabFilled(methodCosts, t) ==
  /\ t \in DOMAIN methodCosts
  /\ "implementationCost" \in DOMAIN methodCosts[t]
  /\ "maintenanceCost" \in DOMAIN methodCosts[t]
  /\ Positive(methodCosts[t].implementationCost)
  /\ Positive(methodCosts[t].maintenanceCost)
  /\ "implementationDistribution" \in DOMAIN methodCosts[t]
  /\ "maintenanceDistribution" \in DOMAIN methodCosts[t]
  /\ SumsToHundred(methodCosts[t].implementationDistribution)
  /\ SumsToHundred(methodCosts[t].maintenanceDistribution)

AllTabsFilled(methodCosts) ==
  /\ methodCosts # UndefinedObj
  /\ \A t \in {"natural_regeneration", "anr_30", "seed_dispersal", "seedling_planting"} :
       TabFilled(methodCosts, t)

\* C7: allMethodTabsComplete is true iff methodCosts is present and each of the
\* four variants has an entry with both costs > 0, both distributions present
\* and each distribution summing to 100 within 0.01, for every input.
C7_TabsCompleteIff ==
  call.fn = "allMethodTabsComplete" =>
    call.result = AllTabsFilled(call.methodCosts)

\* what the code does decide: the same, on inputs whose cost fields hold numbers
C7_NumericCosts ==
  (call.fn = "allMethodTabsComplete" /\ call.methodCosts # UndefinedObj
     /\ \A t \in DOMAIN call.methodCosts :
          /\ IsNum(NumProp(call.methodCosts[t], "implementationCost"))
          /\ IsNum(NumProp(call.methodCosts[t], "maintenanceCost"))) =>
    call.result = AllTabsFilled(call.methodCosts)

\* the sum of the components' costs, a cost that is no number counting 0
RECURSIVE ComponentTotal(_)
ComponentTotal(components) ==
  IF components = <<>> THEN 0
  ELSE LET c == Head(components).cost
       IN (IF c = NaN \/ c = Undef THEN 0 ELSE c) + ComponentTotal(Tail(components))

\* C8: weightedShares returns {0, 0, 0} whenever the components' total cost is
\* 0, the empty list included, whatever the shares; no result comes from a
\* division by zero.
C8_ZeroTotal ==
  call.fn = "weightedShares" =>
    /\ ComponentTotal(call.components) = 0 =>
         call.result = [labor |-> [num |-> 0, den |-> 1],
                        materials |-> [num |-> 0, den |-> 1],
                        machinery |-> [num |-> 0, den |-> 1]]
    /\ \A k \in {"labor", "materials", "machinery"} : call.result[k].den # 0

\* two components of opposite cost and non-zero shares: total 0, result zero
C8_Witness ==
  /\ call.fn = "weightedShares"
  /\ Len(call.components) = 2
  /\ call.components[1].cost = 500
  /\ call.components[2].cost = -500
  /\ call.components[1].shares.labor = Hundred
  /\ call.result.labor = [num |-> 0, den |-> 1]
  /\ call.result.materials = [num |-> 0, den |-> 1]
  /\ call.result.machinery = [num |-> 0, den |-> 1]

\* two components of cost 0 with shares X and Y
C8_WitnessZeroCosts ==
  /\ call.fn = "weightedShares"
  /\ Len(call.components) = 2
  /\ call.components[1].cost = 0
  /\ call.components[2].cost = 0
  /\ call.components[1].shares.labor = Hundred
  /\ call.components[2].shares.labor = 50 * UnitsPerOne
  /\ call.result.labor = [num |-> 0, den |-> 1]

\* ------------------------------------------------------------------------
\* Properties of the schemas
\* ------------------------------------------------------------------------

\* every component is a number of [0, 100]
InRange(d) ==
  \A k \in {"labor", "materials", "machinery"} :
    k \in DOMAIN d /\ d[k] # NaN /\ d[k] # Undef /\ 0 <= d[k] /\ d[k] <= 100 * UnitsPerOne

\* |x| < 0.01
WithinHundredth(x) == -UnitsPerOne < 100 * x /\ 100 * x < UnitsPerOne

\* C3: a factor triple with each component in [0, 100] is accepted iff
\* |labor + materials + machinery - 100| < 0.01 (a sum exactly 0.01 away is
\* rejected), and factorSharesSchema and costDistributionSchema agree on it.
C3_TripleSum ==
  (call.fn = "parseTriple" /\ InRange(call.triple)) =>
    LET sum == call.triple.labor + call.triple.materials + call.triple.machinery IN
    /\ (call.factorShares = {}) = WithinHundredth(sum - 100 * UnitsPerOne)
    /\ (call.costDistribution = {}) = (call.factorShares = {})

\* the two schemas also agree outside the range
C3_SameVerdict ==
  call.fn = "parseTriple" => ((call.costDistribution = {}) = (call.factorShares = {}))

\* a sum exactly 0.01 below 100, rejected by both schemas
C3_Witness ==
  /\ call.fn = "parseTriple"
  /\ InRange(call.triple)
  /\ 100 * (call.triple.labor + call.triple.materials + call.triple.machinery)
       = 100 * 100 * UnitsPerOne - UnitsPerOne
  /\ call.factorShares # {}
  /\ call.costDistribution # {}

\* a sum 0.005 above 100, accepted
C3_WitnessAccepted ==
  /\ call.fn = "parseTriple"
  /\ InRange(call.triple)
  /\ call.triple.labor + call.triple.materials + call.triple.machinery = 100 * UnitsPerOne + 1
  /\ call.factorShares = {}
  /\ call.costDistribution = {}

\* the three costs of a scenario are numbers >= 0
NonNegativeCosts(d) ==
  \A k \in {"totalCost", "implementationCost", "maintenanceCost"} :
    d[k] # NaN /\ d[k] # Undef /\ d[k] >= 0

\* the issues reported under the top-level field key
IssuesUnder(issues, key) == {i \in issues : Len(i.path) > 0 /\ i.path[1] = key}

\* C4: a scenario cost record with non-negative costs is accepted iff
\* |totalCost - (implementationCost + maintenanceCost)| < 0.01, and in a full
\* record the favorable and the unfavorable scenario are each judged on their
\* own values, whatever the verdict on the other.
C4_ScenarioTotal ==
  /\ (call.fn = "scenarioCostsSchema" /\ NonNegativeCosts(call.scenario)) =>
       (call.issues = {}) =
         WithinHundredth(call.scenario.totalCost
           - (call.scenario.implementationCost + call.scenario.maintenanceCost))
  /\ call.fn = "restorationModelSchema" =>
       \A key \in {"favorableScenario", "unfavorableScenario"} :
         NonNegativeCosts(call.record[key]) =>
           (IssuesUnder(call.issues, key) = {}) =
             WithinHundredth(call.record[key].totalCost
               - (call.record[key].implementationCost + call.record[key].maintenanceCost))

\* total 1000 against 400 + 601 in the favorable scenario, 400 + 600 in the
\* unfavorable one: the only issue is on favorableScenario.totalCost
C4_Witness ==
  /\ call.fn = "restorationModelSchema"
  /\ call.record.favorableScenario =
       [totalCost |-> 1000 * UnitsPerOne, implementationCost |-> 400 * UnitsPerOne,
        maintenanceCost |-> 601 * UnitsPerOne]
  /\ call.record.unfavorableScenario =
       [totalCost |-> 1000 * UnitsPerOne, implementationCost |-> 400 * UnitsPerOne,
        maintenanceCost |-> 600 * UnitsPerOne]
  /\ call.issues = {[path |-> <<"favorableScenario", "totalCost">>,
                     message |-> "Total cost must equal Implementation + Maintenance"]}

\* both scenarios fail, each reported
C4_WitnessBoth ==
  /\ call.fn = "restorationModelSchema"
  /\ IssuesUnder(call.issues, "favorableScenario") # {}
  /\ IssuesUnder(call.issues, "unfavorableScenario") # {}
  /\ NonNegativeCosts(call.record.favorableScenario)
  /\ NonNegativeCosts(call.record.unfavorableScenario)

\* ------------------------------------------------------------------------
\* Assistance entries follow the selection
\* ------------------------------------------------------------------------

\* C9: in every settled state reached by selecting, deselecting, editing
\* entries, resetting the form and loading snapshots, the names of
\* assistanceCosts, in order, are exactly selectedAssistances
C9_EntriesMatchSelection ==
  Settled => Names(form.assistanceCosts) = form.selectedAssistances

\* a settled form, loaded from a snapshot, with two entries of which one was
\* added by the effect after the load
C9_Witness ==
  /\ Settled
  /\ initialData # UndefinedObj
  /\ Len(form.selectedAssistances) = 2
  /\ Len(initialData.selectedAssistances) = 1
  /\ lastEffect.write

\* a settled form whose entries were cleared after the last activity was unticked
C9_WitnessCleared ==
  /\ Settled
  /\ form.selectedAssistances = <<>>
  /\ lastEffect.write

\* C10: a run of the synchronisation that finds the names of assistanceCosts
\* equal to selectedAssistances (both empty included) does not write
\* assistanceCosts, and the list is the same afterwards
C10_NoWriteWhenMatching ==
  lastEffect.matched => ~lastEffect.write /\ lastEffect.kept

\* the effect has run on a loaded form whose two entries already matched
C10_Witness ==
  /\ Settled
  /\ lastEffect.matched
  /\ Len(form.assistanceCosts) = 2
  /\ initialData # UndefinedObj

\* the effect has run on the empty form after its first mount
C10_WitnessEmpty ==
  /\ Settled
  /\ lastEffect.matched
  /\ form.selectedAssistances = <<>>
  /\ form.assistanceCosts = <<>>

\* ------------------------------------------------------------------------
\* What a run of the synchronisation changes
\* ------------------------------------------------------------------------

\* the elements of a sequence
Range(seq) == {seq[i] : i \in 1..Len(seq)}

\* the entries whose identifier is still selected, in the order they had
KeptEntries(before, selected) ==
  SelectSeq(before, LAMBDA e : e.name \in Range(selected))

\* the selected identifiers that had no entry, in the order of the selection
AddedIds(before, selected) ==
  SelectSeq(selected, LAMBDA id : id \notin Range(Names(before)))

ZeroEntry(id) ==
  [name |-> id, cost |-> 0, phase |-> "implementation",
   factorShares |-> [labor |-> 0, materials |-> 0, machinery |-> 0]]

C11_WitnessRemoved ==
  /\ lastEffect.ran
  /\ lastEffect.write
  /\ Len(lastEffect.before) = 2
  /\ lastEffect.before[2].cost = 5 * UnitsPerOne
  /\ form.assistanceCosts = <<lastEffect.before[2]>>

\* C12: a run of the synchronisation leaves the form settled, and the list
\* it leaves is one the synchronisation would not write again: after one
\* change of the selection there is at most one write
C12_OneWriteThenSettled ==
  lastEffect.ran =>
    /\ Settled
    /\ ~syncAssistanceCosts(form.selectedAssistances, form.assistanceCosts).write

\* no run of the synchronisation is followed by another run before the
\* next user event
C12_NoSecondRun == [][lastEffect.ran => ~lastEffect'.ran]_vars

\* the run wrote the first entry of the list
C12_Witness ==
  /\ lastEffect.ran
  /\ lastEffect.write
  /\ lastEffect.before = <<>>
  /\ Len(form.assistanceCosts) = 1

\* ------------------------------------------------------------------------
\* The gates of Save and Export in the tab-based form
\* ------------------------------------------------------------------------

\* C13: pressing Save changes the store only when allMethodTabsComplete
\* holds for the record and the schema reports no issue for it; a submit
\* that fails either check leaves the store as it was
C13_SaveGate ==
  [][call'.fn = "submit" /\ store' # store =>
       /\ allMethodTabsComplete(form.methodCosts)
       /\ restorationModelSchema(form) = {}]_vars

\* a submit has saved a record next to the one already stored
C13_Witness ==
  /\ call.fn = "submit"
  /\ call.outcome = "saved"
  /\ Len(loadModels) = 2

\* a submit with complete method tabs was refused by the validation and
\* the store still holds what it held
C13_WitnessRefused ==
  /\ call.fn = "submit"
  /\ call.outcome = "invalid"
  /\ allMethodTabsComplete(form.methodCosts)
  /\ restorationModelSchema(form) # {}
  /\ store \in StoredAtStart

\* ------------------------------------------------------------------------
\* Properties of the Export button
\* ------------------------------------------------------------------------

\* a pair of labor shares sums to 100 within 0.01
PairSumsToHundred(d) ==
  /\ IsNum(NumProp(d, "hiredLabor"))
  /\ IsNum(NumProp(d, "familyLabor"))
  /\ AbsLt(d.hiredLabor + d.familyLabor - Hundred, SumTolerance)

\* three numeric components summing to 100 within 0.01
TripleSumsToHundred(d) ==
  /\ ~TypeFailure(d, {"labor", "materials", "machinery"})
  /\ AbsLt(d.labor + d.materials + d.machinery - Hundred, SumTolerance)

\* every percentage-sum invariant of a record of the tab-based form
PercentageSumsHold(r) ==
  /\ \A t \in DOMAIN r.methodCosts :
       /\ TripleSumsToHundred(r.methodCosts[t].implementationDistribution)
       /\ TripleSumsToHundred(r.methodCosts[t].maintenanceDistribution)
  /\ \A c \in DOMAIN r.contextVariables :
       TripleSumsToHundred(r.contextVariables[c].distribution)
  /\ \A i \in 1..Len(r.assistanceCosts) :
       TripleSumsToHundred(r.assistanceCosts[i].factorShares)
  /\ TripleSumsToHundred(r.favorableFactorShares)
  /\ PairSumsToHundred(r.laborBreakdown.implementation)
  /\ PairSumsToHundred(r.laborBreakdown.maintenance)

\* C14: Export is enabled only in states where every percentage-sum invariant
\* of the current record holds (method distributions, context distributions,
\* assistance factor shares, favorable factor shares, labor breakdown pairs):
\* an export that was triggered wrote a record in which all of them hold.
C14_ExportOnlySumsHold ==
  call.fn = "export" => PercentageSumsHold(form)

\* what the button does guarantee: the method distributions of the exported
\* record sum to 100
C14_ExportMethodSums ==
  call.fn = "export" =>
    \A t \in DOMAIN form.methodCosts :
      /\ TripleSumsToHundred(form.methodCosts[t].implementationDistribution)
      /\ TripleSumsToHundred(form.methodCosts[t].maintenanceDistribution)

\* an export of a record whose labor pair or context distribution is off
C14_ExportedOffSum ==
  /\ call.fn = "export"
  /\ ~PairSumsToHundred(form.laborBreakdown.implementation)
  /\ ~TripleSumsToHundred(form.contextVariables.fireRisk.distribution)

\* ------------------------------------------------------------------------
\* Validation reports every violation
\* ------------------------------------------------------------------------

\* the value at a path of nested objects, undefined when a property is missing
RECURSIVE At(_, _)
At(obj, path) ==
  IF path = <<>> THEN obj
  ELSE IF Has(obj, Head(path)) THEN At(obj[Head(path)], Tail(path))
  ELSE Undef

TripleKeys == {"labor", "materials", "machinery"}

RequiredMessage ==
  [labor |-> "Labor % is required", materials |-> "Materials % is required",
   machinery |-> "Machinery % is required",
   hiredLabor |-> "Hired Labor % is required", familyLabor |-> "Family Labor % is required",
   totalCost |-> "Total cost is required",
   implementationCost |-> "Implementation cost is required",
   maintenanceCost |-> "Maintenance cost is required",
   cost |-> "Cost is required", enrichmentIntensity |-> "Invalid input"]

\* the triples, labor pairs and scenarios of a record of the tab-based form
TriplePaths ==
  {<<"favorableFactorShares">>}
    \cup {<<"methodCosts", MethodTabIds[i], d>> : i \in 1..Len(MethodTabIds), d \in DistributionKeys}
    \cup {<<"contextVariables", c, "distribution">> :
            c \in {"fireRisk", "grazingPressure", "invasiveSpeciesPressure", "humanEncroachment"}}

PairPaths == {<<"laborBreakdown", "implementation">>, <<"laborBreakdown", "maintenance">>}

ScenarioPaths == {<<"favorableScenario">>, <<"unfavorableScenario">>}

\* the fields holding a percentage and the fields holding a cost
PercentPaths ==
  {<<"enrichmentIntensity">>}
    \cup {p \o <<k>> : p \in TriplePaths, k \in TripleKeys}
    \cup {p \o <<k>> : p \in PairPaths, k \in {"hiredLabor", "familyLabor"}}

CostPaths ==
  {p \o <<k>> : p \in ScenarioPaths, k \in {"totalCost", "implementationCost", "maintenanceCost"}}
    \cup {<<"methodCosts", MethodTabIds[i], k>> :
            i \in 1..Len(MethodTabIds), k \in {"implementationCost", "maintenanceCost"}}
    \cup {<<"contextVariables", c, "cost">> :
            c \in {"fireRisk", "grazingPressure", "invasiveSpeciesPressure", "humanEncroachment"}}

\* the domain rule of one numeric field, evaluated on its own
DomainRule(r, path, percent) ==
  LET x == At(r, path) IN
  IF ~IsNum(x) THEN {Issue(path, RequiredMessage[path[Len(path)]])}
  ELSE IssueIf(x < 0, path, "Cannot be negative")
         \cup IssueIf(percent /\ x > Hundred, path, "Cannot exceed 100%")

\* a sum of components; not a number as soon as one component is not
SumOf(d, keys) ==
  IF TypeFailure(d, keys) THEN NaN
  ELSE LET k1 == CHOOSE k \in keys : TRUE
           k2 == CHOOSE k \in keys \ {k1} : TRUE
           rest == keys \ {k1, k2}
       IN d[k1] + d[k2] + (IF rest = {} THEN 0 ELSE d[CHOOSE k \in rest : TRUE])

\* |sum - target| < 0.01 as JavaScript evaluates it: false on NaN
NearTarget(sum, target) ==
  IsNum(sum) /\ IsNum(target) /\ AbsLt(sum - target, SumTolerance)

\* each sum invariant evaluated on its own
SumRule(r, path) ==
  LET d == At(r, path) IN
  IF path \in ScenarioPaths
    THEN IssueIf(~NearTarget(SumOf(d, {"implementationCost", "maintenanceCost"}),
                             NumProp(d, "totalCost")),
                 path \o <<"totalCost">>, "Total cost must equal Implementation + Maintenance")
  ELSE IF path \in PairPaths
    THEN IssueIf(~NearTarget(SumOf(d, {"hiredLabor", "familyLabor"}), Hundred),
                 path \o <<"hiredLabor">>, "Hired + Family labor must sum to 100%")
  ELSE IssueIf(~NearTarget(SumOf(d, TripleKeys), Hundred),
               path \o <<"labor">>,
               IF path = <<"favorableFactorShares">> THEN "Factor shares must sum to 100%"
               ELSE "Distribution must sum to 100%")

\* the components of the structure at path are all numbers
AllNumbers(r, path) ==
  IF path \in ScenarioPaths
    THEN ~TypeFailure(At(r, path), {"totalCost", "implementationCost", "maintenanceCost"})
  ELSE IF path \in PairPaths THEN ~TypeFailure(At(r, path), {"hiredLabor", "familyLabor"})
  ELSE ~TypeFailure(At(r, path), TripleKeys)

DomainIssues(r) ==
  UNION {DomainRule(r, p, TRUE) : p \in PercentPaths}
    \cup UNION {DomainRule(r, p, FALSE) : p \in CostPaths}

SumPaths == TriplePaths \cup PairPaths \cup ScenarioPaths

\* the records parsed here hold valid strings, options and flags and no
\* assistance entry: their violations are those of the numeric rules
NumericRulesOnly(r) ==
  /\ r.ecosystem # "" /\ r.country # "" /\ r.timeHorizon = 20
  /\ r.methodType \in {MethodTabIds[i] : i \in 1..Len(MethodTabIds)}
  /\ r.assistanceCosts = <<>>

\* C15: validation does not stop at the first failure: for every record the
\* reported violations are the union of the violations of each sum invariant
\* and each field-domain rule evaluated on its own; no failure suppresses the
\* report of another failing invariant.
C15_UnionOfAllRules ==
  (call.fn = "restorationModelSchema" /\ NumericRulesOnly(call.record)) =>
    call.issues = DomainIssues(call.record)
                    \cup UNION {SumRule(call.record, p) : p \in SumPaths}

\* what the schema does report: every domain violation, and the sum violation
\* of every structure whose components are all numbers
C15_UnionWhereNumbers ==
  (call.fn = "restorationModelSchema" /\ NumericRulesOnly(call.record)) =>
    call.issues = DomainIssues(call.record)
                    \cup UNION {SumRule(call.record, p) :
                                  p \in {q \in SumPaths : AllNumbers(call.record, q)}}

\* an out-of-range share, a labor pair off 100 and a scenario total off its
\* parts, all reported by one parse
C15_ReportedTogether ==
  /\ call.fn = "restorationModelSchema"
  /\ Issue(<<"favorableFactorShares", "labor">>, "Cannot exceed 100%") \in call.issues
  /\ Issue(<<"favorableFactorShares", "labor">>, "Factor shares must sum to 100%") \in call.issues
  /\ Issue(<<"laborBreakdown", "implementation", "hiredLabor">>,
           "Hired + Family labor must sum to 100%") \in call.issues
  /\ Issue(<<"favorableScenario", "totalCost">>,
           "Total cost must equal Implementation + Maintenance") \in call.issues
  /\ Issue(<<"methodCosts", "anr_30", "implementationDistribution", "labor">>,
           "Distribution must sum to 100%") \in call.issues

\* a triple with an empty component and the others summing to 160: the sum
\* violation is not among the issues
C15_SumSuppressed ==
  /\ call.fn = "restorationModelSchema"
  /\ call.record.favorableFactorShares =
       [labor |-> NaN, materials |-> 80 * UnitsPerOne, machinery |-> 80 * UnitsPerOne]
  /\ IssuesUnder(call.issues, "favorableFactorShares") =
       {Issue(<<"favorableFactorShares", "labor">>, "Labor % is required")}

\* ------------------------------------------------------------------------
\* Properties of the store of saved models
\* ------------------------------------------------------------------------

\* C16: saveModel on a store holding the list L leaves the store holding L,
\* unchanged and in the same order, followed by exactly one new entry whose
\* id differs from every id in L and whose data is the saved record; no
\* existing entry is replaced or removed by a save.
C16_SaveAppends ==
  (call.fn = "saveModel" /\ ~call.threw) =>
    /\ store.kind = "list"
    /\ Len(store.models) = Len(call.before) + 1
    /\ SubSeq(store.models, 1, Len(call.before)) = call.before
    /\ store.models[Len(store.models)].id \notin
         {call.before[k].id : k \in 1..Len(call.before)}
    /\ store.models[Len(store.models)].data = call.data

\* a save on a store that held two entries
C16_Witness ==
  /\ call.fn = "saveModel" /\ ~call.threw
  /\ Len(call.before) = 2
  /\ Len(store.models) = 3

\* C17: for every content of the storage key (absent, not parseable as JSON,
\* parseable JSON that is not a list) loadModels returns a list without
\* raising, and the empty list when the content is absent or corrupt.
C17_LoadReturnsList ==
  call.fn = "loadModels" =>
    /\ ~call.threw
    /\ call.isArray
    /\ call.content.kind \in {"absent", "empty", "corrupt"} => call.result = <<>>

\* what loadModels does guarantee: no exception, and the empty list for an
\* absent, empty or unparseable content
C17_LoadAbsentOrCorrupt ==
  call.fn = "loadModels" =>
    /\ ~call.threw
    /\ call.content.kind \in {"absent", "empty", "corrupt"} =>
         call.isArray /\ call.result = <<>>

\* loadModels on unparseable content
C17_WitnessCorrupt ==
  call.fn = "loadModels" /\ call.content.kind = "corrupt" /\ call.result = <<>>

\* loadModels handing back a JSON object
C17_WitnessNotList ==
  call.fn = "loadModels" /\ call.content.kind = "value" /\ ~call.isArray

\* C19: deleteModel(id) removes exactly the entries whose id equals the
\* argument and leaves every other entry unchanged and in the same order;
\* deleting an id that is not in the store leaves the list unchanged.
C19_DeleteExactly ==
  (call.fn = "deleteModel" /\ ~call.threw) =>
    /\ store.kind = "list"
    /\ store.models = SelectSeq(call.before, LAMBDA m : m.id # call.id)
    /\ (\A k \in 1..Len(call.before) : call.before[k].id # call.id) =>
         store.models = call.before

\* the first of three entries deleted, the two others kept in order
C19_Witness ==
  /\ call.fn = "deleteModel" /\ ~call.threw
  /\ Len(call.before) = 3
  /\ call.before[1].id = call.id
  /\ call.before[2].id # call.id /\ call.before[3].id # call.id
  /\ call.before[2] # call.before[3]
  /\ store.models = <<call.before[2], call.before[3]>>

\* an id that is not in a non-empty store
C19_WitnessUnknownId ==
  /\ call.fn = "deleteModel" /\ ~call.threw
  /\ Len(call.before) = 2
  /\ \A k \in 1..Len(call.before) : call.before[k].id # call.id
  /\ store.models = call.before

\* the ids stored, and the records stored under an id
StoredIds(s) == {s[k].id : k \in 1..Len(s)}

StoredUnder(s, id) == {s[k].data : k \in {j \in 1..Len(s) : s[j].id = id}}

\* C18: over any sequence of save, load-into-form, field-edit, reset and
\* delete operations, the record stored under an id is the same from the save
\* that created it until the delete that removes it: a step leaves the stored
\* list as it is (load, edit, reset, refused save), or appends one entry under
\* a new id (save), or removes the entries of one id (delete); it never
\* changes the record of an id that stays.
C18_SnapshotsImmutable ==
  [][LET old == loadModels
         new == IF store'.kind = "list" THEN store'.models ELSE <<>>
     IN /\ \A id \in StoredIds(old) \cap StoredIds(new) :
             StoredUnder(new, id) = StoredUnder(old, id)
        /\ \/ new = old
           \/ /\ call'.fn = "submit"
              /\ Len(new) = Len(old) + 1
              /\ SubSeq(new, 1, Len(old)) = old
              /\ new[Len(new)].id \notin StoredIds(old)
           \/ /\ call'.fn = "none"
              /\ \E id \in StoredIds(old) : new = SelectSeq(old, LAMBDA m : m.id # id)]_vars

\* a snapshot was loaded, edited and saved: the store holds the old snapshot
\* as it was and the edited record under a new id
C18_Witness ==
  /\ call.fn = "submit" /\ call.outcome = "saved"
  /\ Len(loadModels) = 2
  /\ loadModels[1] = [id |-> 0, data |-> StoredTabRecord]
  /\ loadModels[2].id # 0
  /\ loadModels[2].data # StoredTabRecord

\* the new entry outlives the delete of the old one
C18_WitnessAfterDelete ==
  /\ Len(loadModels) = 1
  /\ loadModels[1].id # 0
  /\ loadModels[1].data # StoredTabRecord

\* ------------------------------------------------------------------------
\* JSON round trip of the live record
\* ------------------------------------------------------------------------

\* C20: for every record the live form can hold, serialising it to JSON as
\* save and export do and parsing it back yields a record equal to the
\* original: the record read back from an exported file is the record of the
\* form that was exported.
C20_ExportRoundTrip ==
  call.fn = "export" => call.file = form

\* no cost of a method tab is an emptied input
NoEmptyMethodCost(r) ==
  \A t \in DOMAIN r.methodCosts :
    /\ IsNum(r.methodCosts[t].implementationCost)
    /\ IsNum(r.methodCosts[t].maintenanceCost)

\* what does round-trip: an exported record whose costs are all numbers, and
\* every record a save stores
C20_NumbersRoundTrip ==
  /\ (call.fn = "export" /\ NoEmptyMethodCost(form)) => call.file = form
  /\ \A k \in 1..Len(loadModels) : jsonTabRecord(loadModels[k].data) = loadModels[k].data

\* an export of a form whose active tab has an emptied implementation cost:
\* the file holds null there
C20_ExportedNull ==
  /\ call.fn = "export"
  /\ form.methodCosts[form.methodType].implementationCost = NaN
  /\ call.file.methodCosts[form.methodType].implementationCost = Null

\* ------------------------------------------------------------------------
\* Reconciliation is advisory
\* ------------------------------------------------------------------------

C21_WitnessWithin ==
  /\ call.fn = "submit" /\ call.outcome = "saved"
  /\ Len(loadModels) = 2
  /\ useComputedFields(loadModels[2].data).isWithinTolerance

\* ------------------------------------------------------------------------
\* Where violations are reported
\* ------------------------------------------------------------------------

SumMessages ==
  {"Factor shares must sum to 100%", "Distribution must sum to 100%",
   "Hired + Family labor must sum to 100%",
   "Total cost must equal Implementation + Maintenance"}

\* the first field of a triple, a labor pair or a scenario
FirstField(path) ==
  IF path \in ScenarioPaths THEN "totalCost"
  ELSE IF path \in PairPaths THEN "hiredLabor"
  ELSE "labor"

\* the cross-field rule of the structure at path fails on numbers
SumFails(r, path) == AllNumbers(r, path) /\ SumRule(r, path) # {}

\* the factor shares of an assistance entry are numbers that do not sum to 100
EntrySumFails(e) ==
  /\ ~TypeFailure(e.factorShares, {"labor", "materials", "machinery"})
  /\ ~TripleSumsToHundred(e.factorShares)

\* C22: every cross-field violation is reported against the first field of
\* the failing group, at the nested path of the sub-structure that failed,
\* and not against the whole record: a triple-sum failure on the triple's
\* labor field, a labor-pair failure on hiredLabor, a scenario-total failure
\* on totalCost.
C22_FirstFieldOfGroup ==
  /\ call.fn = "restorationModelSchema" =>
       /\ \A i \in call.issues : i.path # <<>>
       /\ \A i \in call.issues :
            i.message \in SumMessages =>
              \/ \E p \in SumPaths : i.path = p \o <<FirstField(p)>> /\ SumFails(call.record, p)
              \/ \E k \in 1..Len(call.record.assistanceCosts) :
                   /\ i.path = <<"assistanceCosts", IndexKey(k), "factorShares", "labor">>
                   /\ EntrySumFails(call.record.assistanceCosts[k])
       /\ \A p \in SumPaths :
            SumFails(call.record, p) =>
              \E i \in call.issues :
                i.path = p \o <<FirstField(p)>> /\ i.message \in SumMessages
       /\ \A k \in 1..Len(call.record.assistanceCosts) :
            EntrySumFails(call.record.assistanceCosts[k]) =>
              Issue(<<"assistanceCosts", IndexKey(k), "factorShares", "labor">>,
                    "Factor shares must sum to 100%") \in call.issues
  /\ call.fn = "parseTriple" =>
       \A i \in call.factorShares \cup call.costDistribution :
         i.message \in SumMessages => i.path = <<"labor">>
  /\ call.fn = "scenarioCostsSchema" =>
       \A i \in call.issues : i.message \in SumMessages => i.path = <<"totalCost">>

\* a record failing only by its sums: one issue on each first field
C22_Witness ==
  /\ call.fn = "restorationModelSchema"
  /\ call.issues =
       { Issue(<<"favorableFactorShares", "labor">>, "Factor shares must sum to 100%"),
         Issue(<<"laborBreakdown", "implementation", "hiredLabor">>,
               "Hired + Family labor must sum to 100%"),
         Issue(<<"favorableScenario", "totalCost">>,
               "Total cost must equal Implementation + Maintenance"),
         Issue(<<"methodCosts", "anr_30", "implementationDistribution", "labor">>,
               "Distribution must sum to 100%") }

\* ------------------------------------------------------------------------
\* Domain of the numeric leaves
\* ------------------------------------------------------------------------

\* the leaf holds a percentage
PercentLeaf(path) ==
  path[Len(path)] \in {"labor", "materials", "machinery", "hiredLabor", "familyLabor",
                       "enrichmentIntensity"}

\* the leaf holds a cost
CostLeaf(path) ==
  path[Len(path)] \in {"totalCost", "implementationCost", "maintenanceCost", "cost",
                       "hiredLaborCostPerDay"}

\* the issues reported on a leaf
IssuesAt(issues, path) == {i \in issues : i.path = path}

\* C23: validation rejects, with a violation on that leaf, every percentage
\* leaf outside [0, 100] and every negative cost leaf of the record (scenario
\* costs, method costs, context-constraint costs, assistance costs and the
\* hired-labor daily rate), and accepts any signed interactionAdjustment.
C23_LeafDomains ==
  (call.fn = "restorationModelSchema" /\ "leaf" \in DOMAIN call) =>
    /\ (PercentLeaf(call.leaf) /\ (call.value < 0 \/ call.value > Hundred)) =>
         IssuesAt(call.issues, call.leaf) # {}
    /\ (CostLeaf(call.leaf) /\ call.value < 0) =>
         IssuesAt(call.issues, call.leaf) # {}
    /\ call.leaf = <<"interactionAdjustment">> => call.issues = {}

\* what the schema does reject: the same, the hired-labor daily rate apart
C23_DeclaredLeafDomains ==
  (call.fn = "restorationModelSchema" /\ "leaf" \in DOMAIN call
     /\ call.leaf # <<"laborBreakdown", "hiredLaborCostPerDay">>) =>
    /\ (PercentLeaf(call.leaf) /\ (call.value < 0 \/ call.value > Hundred)) =>
         Issue(call.leaf, IF call.value < 0 THEN "Cannot be negative" ELSE "Cannot exceed 100%")
           \in call.issues
    /\ (CostLeaf(call.leaf) /\ call.value < 0) =>
         Issue(call.leaf, "Cannot be negative") \in call.issues
    /\ call.leaf = <<"interactionAdjustment">> => call.issues = {}

\* a negative daily rate in a record the schema accepts
C23_NegativeRateAccepted ==
  /\ call.fn = "restorationModelSchema" /\ "leaf" \in DOMAIN call
  /\ call.leaf = <<"laborBreakdown", "hiredLaborCostPerDay">>
  /\ call.value < 0
  /\ call.issues = {}

\* a negative assistance cost and a negative adjustment
C23_NegativeAssistanceCost ==
  /\ call.fn = "restorationModelSchema" /\ "leaf" \in DOMAIN call
  /\ call.leaf = <<"assistanceCosts", "0", "cost">>
  /\ call.issues = {Issue(call.leaf, "Cannot be negative")}

\* ------------------------------------------------------------------------
\* Inline sum indicators
\* ------------------------------------------------------------------------

\* the components of the rendered group are all numbers
GroupAllNumbers ==
  IF call.group = "labor" THEN ~TypeFailure(call.values, {"hiredLabor", "familyLabor"})
  ELSE ~TypeFailure(call.values, {"labor", "materials", "machinery"})

\* the schema's sum check passes on the rendered values
SchemaSumPasses ==
  /\ GroupAllNumbers
  /\ \A i \in call.issues : i.message \notin SumMessages

C24_WitnessEmpty ==
  /\ call.fn = "indicator" /\ call.group = "distribution"
  /\ call.values = [labor |-> 0, materials |-> 0, machinery |-> 0]
  /\ call.indicator.badge = "none"
  /\ ~SchemaSumPasses

\* an emptied hired share next to a family share of 50: the empty input
\* counts as 0 and the badge warns
C24_WitnessEmptied ==
  /\ call.fn = "indicator" /\ call.group = "labor"
  /\ call.values = [hiredLabor |-> NaN, familyLabor |-> 50 * UnitsPerOne]
  /\ call.indicator.badge = "warn"

\* ------------------------------------------------------------------------
\* The name of the exported file
\* ------------------------------------------------------------------------

\* s with every run of whitespace replaced by one underscore: the characters
\* that are not whitespace, and an underscore where a run starts
Squeezed(s) ==
  LET kept == {i \in 1..Len(s) : s[i] \notin Whitespace \/ i = 1 \/ s[i - 1] \notin Whitespace}
      nth(n) == CHOOSE i \in kept : Cardinality({j \in kept : j < i}) = n - 1
  IN [n \in 1..Cardinality(kept) |-> IF s[nth(n)] \in Whitespace THEN "_" ELSE s[nth(n)]]

\* the sanitized name, or the word unknown for an empty input
SanitizedOrUnknown(s) ==
  IF s = <<>> THEN <<"u", "n", "k", "n", "o", "w", "n">> ELSE Squeezed(s)

\* the first 19 characters of the ISO time with T and colons made hyphens
Stamp(iso) == [i \in 1..19 |-> IF iso[i] \in {"T", ":"} THEN "-" ELSE iso[i]]

\* C25: generateExportFilename(ecosystem, method) returns
\* restoration_<eco>_<mth>_<ts>.json, <eco> and <mth> being the inputs with
\* every run of whitespace replaced by one underscore (unknown for an empty
\* input) and <ts> the first 19 characters of the ISO time with every colon
\* and the T replaced by a hyphen; the result has no whitespace, and the
\* timestamp part no colon and no T.
C25_ExportFilename ==
  call.fn = "generateExportFilename" =>
    /\ call.result =
         <<"r", "e", "s", "t", "o", "r", "a", "t", "i", "o", "n", "_">>
           \o SanitizedOrUnknown(call.ecosystem) \o <<"_">>
           \o SanitizedOrUnknown(call.method) \o <<"_">>
           \o Stamp(call.iso) \o <<".", "j", "s", "o", "n">>
    /\ \A i \in 1..Len(call.result) : call.result[i] \notin Whitespace
    /\ \A i \in (Len(call.result) - 23)..(Len(call.result) - 5) :
         call.result[i] \notin {":", "T"}

\* an ecosystem ending in a run of two whitespace characters and an empty
\* method
C25_Witness ==
  /\ call.fn = "generateExportFilename"
  /\ call.ecosystem = <<"a", " ", "\t">>
  /\ call.method = <<>>
  /\ call.iso[11] = "T"
  /\ SubSeq(call.result, 13, 23) = <<"a", "_", "_", "u", "n", "k", "n", "o", "w", "n", "_">>
  /\ SubSeq(call.result, 24, 42) =
       <<"2", "0", "2", "6", "-", "1", "1", "-", "0", "2", "-", "0", "9", "-", "0", "5", "-", "0", "7">>

\* ------------------------------------------------------------------------
\* Reaching the save gate from the defaults
\* ------------------------------------------------------------------------

\* C26: in the tab-based form, starting from the empty default record, edits
\* to the fields the form renders lead to a state where Save persists a
\* snapshot: the save gate is reachable by user edits alone.
C26_EventuallySaved ==
  <>(call.fn = "submit" /\ call.outcome = "saved")

\* what holds instead, on every behaviour: nothing is ever stored, because
\* no rendered input writes favorableFactorShares and the schema refuses
\* its default
C26_NeverSaved ==
  /\ store = [kind |-> "absent"]
  /\ form.favorableFactorShares = EMPTY_FACTOR_SHARES
  /\ restorationModelSchema(form) # {}

\* every rendered field filled in and all four tabs complete: the submit is
\* refused for the favorable factor shares alone
C26_RefusedForFactorShares ==
  /\ call.fn = "submit" /\ call.outcome = "invalid"
  /\ allMethodTabsComplete(form.methodCosts)
  /\ restorationModelSchema(form) =
       {Issue(<<"favorableFactorShares", "labor">>, "Factor shares must sum to 100%")}

\* ------------------------------------------------------------------------
\* The re-mount after a save
\* ------------------------------------------------------------------------

\* the snapshot written by the last save
LastSaved == loadModels[Len(loadModels)].data

\* C27: after every successful save the form is re-mounted: each top-level
\* key of the live record is the loaded snapshot's value where a snapshot was
\* loaded and has the key, and the default otherwise; a key keeps the value
\* just saved only where that value is the loaded snapshot's or the default.
C27_RemountAfterSave ==
  [][(call'.fn = "submit" /\ call'.outcome = "saved") =>
       /\ DOMAIN form' =
            DOMAIN DEFAULT_TAB_FORM_VALUES
              \cup (IF initialData = UndefinedObj THEN {} ELSE DOMAIN initialData)
       /\ \A k \in DOMAIN form' :
            form'[k] = IF initialData # UndefinedObj /\ k \in DOMAIN initialData
                       THEN initialData[k]
                       ELSE DEFAULT_TAB_FORM_VALUES[k]
       /\ initialData' = initialData]_vars

\* a snapshot was loaded, another method tab chosen and the record saved:
\* the chosen method is in storage and the form shows the loaded one again
C27_Witness ==
  /\ call.fn = "submit" /\ call.outcome = "saved"
  /\ initialData # UndefinedObj
  /\ LastSaved.methodType # initialData.methodType
  /\ form.methodType = initialData.methodType

\* a loaded snapshot saved again without an edit stays in the form
C27_WitnessKept ==
  /\ call.fn = "submit" /\ call.outcome = "saved"
  /\ initialData # UndefinedObj
  /\ LastSaved = restorationModelOutput(form)

\* ------------------------------------------------------------------------
\* The cost-weighted average of the factor shares
\* ------------------------------------------------------------------------

\* the cost a component weighs with: a cost that is no number weighs 0
ComponentCost(c) == IF c.cost = NaN \/ c.cost = Undef THEN 0 ELSE c.cost

\* a share as the average reads it: a share that is no number counts 0
ShareOf(c, dim) ==
  IF c.shares[dim] = NaN \/ c.shares[dim] = Undef \/ c.shares[dim] = Null THEN 0
  ELSE c.shares[dim]

\* the sum over the components of cost times share in one dimension
RECURSIVE CostTimesShare(_, _)
CostTimesShare(components, dim) ==
  IF components = <<>> THEN 0
  ELSE ComponentCost(Head(components)) * ShareOf(Head(components), dim)
         + CostTimesShare(Tail(components), dim)

\* the components left when those of cost 0 are taken out
RECURSIVE WithoutZeroCost(_)
WithoutZeroCost(components) ==
  IF components = <<>> THEN <<>>
  ELSE IF ComponentCost(Head(components)) = 0 THEN WithoutZeroCost(Tail(components))
       ELSE <<Head(components)>> \o WithoutZeroCost(Tail(components))

ShareTotal(c) == ShareOf(c, "labor") + ShareOf(c, "materials") + ShareOf(c, "machinery")

\* the three quotients of a result over one total add up to 100
ResultSumsToHundred(result, total) ==
  result.labor.num + result.materials.num + result.machinery.num = Hundred * total

\* each dimension is the sum of cost times share over the total cost, and
\* the components of cost 0 can be left out
WeightedAverage(components, result) ==
  /\ \A dim \in {"labor", "materials", "machinery"} :
       result[dim] = [num |-> CostTimesShare(components, dim),
                      den |-> ComponentTotal(components)]
  /\ weightedShares(WithoutZeroCost(components)) = result

C28_WitnessZeroCost ==
  /\ call.fn = "weightedShares"
  /\ Len(call.components) = 2
  /\ call.components[1].cost = 0 /\ call.components[1].shares.labor = 50 * UnitsPerOne
  /\ call.components[2].cost = 1000 /\ call.components[2].shares.labor = Hundred
  /\ call.result.labor = [num |-> 1000 * Hundred, den |-> 1000]

\* a component of negative cost whose shares are all 0 next to one of
\* positive cost with shares summing to 100: the result sums to 200
C28_WitnessNegativeCost ==
  /\ call.fn = "weightedShares"
  /\ Len(call.components) = 2
  /\ call.components[1].cost = 1000 /\ ShareTotal(call.components[1]) = Hundred
  /\ call.components[2].cost = -500 /\ ShareTotal(call.components[2]) = 0
  /\ call.result.labor.num + call.result.materials.num + call.result.machinery.num
       = 2 * Hundred * 500

\* ------------------------------------------------------------------------
\* The method tab, the method of the record and the enrichment intensity
\* ------------------------------------------------------------------------

\* const showEnrichmentWarning = activeTab === "anr_30" && currentEnrichment > 50
showEnrichmentWarning(tab, values) ==
  tab = "anr_30" /\ values.enrichmentIntensity > 50 * UnitsPerOne

\* the method of the record is the active tab, the enrichment intensity is
\* that tab's defaultEnrichment, and the enrichment warning is not shown
TabAndEnrichment ==
  /\ form.methodType = activeTab
  /\ form.enrichmentIntensity = defaultEnrichment[activeTab]
  /\ ~showEnrichmentWarning(activeTab, form)

\* C29: in every state reached from the default record by tab changes and
\* field edits the method of the record is the active tab, the enrichment
\* intensity is that tab's defaultEnrichment and the enrichment warning is
\* not shown; and every tab change leaves methodCosts as they were.
C29_TabAndEnrichment ==
  /\ []TabAndEnrichment
  /\ [][TabChangeAny => form'.methodCosts = form.methodCosts]_vars

\* the anr_30 tab is shown with costs filled on the first tab, the enrichment
\* intensity being exactly 50
C29_Witness ==
  /\ activeTab = "anr_30"
  /\ form.enrichmentIntensity = 50 * UnitsPerOne
  /\ form.methodCosts.natural_regeneration.implementationCost = 1000 * UnitsPerOne
  /\ form.methodCosts.anr_30.implementationCost = 1000 * UnitsPerOne

\* the form was reset on the last tab: the first tab is shown again
C29_WitnessReset ==
  /\ activeTab = "natural_regeneration"
  /\ form = DEFAULT_TAB_FORM_VALUES
  /\ call = NoCall

\* ------------------------------------------------------------------------
\* components/sections/SummaryValidationSection.tsx: the cost lines of the
\* summary. The costs are IEEE doubles: a sum beyond Number.MAX_VALUE is
\* Infinity, and Infinity - Infinity is NaN. MAX_VALUE stands for
\* Number.MAX_VALUE on the scale of the model.
\* ------------------------------------------------------------------------

Infinity == -999999996

NegInfinity == -999999995

MAX_VALUE == 1000000 * UnitsPerOne

IsFinite(x) == IsNum(x) /\ x # Infinity /\ x # NegInfinity

\* a + b of two doubles
jsAdd(a, b) ==
  IF ~IsNum(a) \/ ~IsNum(b) THEN NaN
  ELSE IF a = Infinity THEN (IF b = NegInfinity THEN NaN ELSE Infinity)
  ELSE IF a = NegInfinity THEN (IF b = Infinity THEN NaN ELSE NegInfinity)
  ELSE IF b = Infinity \/ b = NegInfinity THEN b
  ELSE IF a + b > MAX_VALUE THEN Infinity
  ELSE IF a + b < -MAX_VALUE THEN NegInfinity
  ELSE a + b

\* a - b of two doubles
jsSub(a, b) ==
  jsAdd(a, IF b = Infinity THEN NegInfinity
           ELSE IF b = NegInfinity THEN Infinity
           ELSE IF IsNum(b) THEN -b ELSE b)

\* mutant: a comparison that takes NaN for a difference below the bound
jsAbsLt_orNaN(x, bound) == x = NaN \/ (IsFinite(x) /\ Abs(x) < bound)

\* Math.abs(x) < bound
jsAbsLt(x, bound) == IsFinite(x) /\ Abs(x) < bound

constraintKeys == <<"fireRisk", "grazingPressure", "invasiveSpeciesPressure", "humanEncroachment">>

\* constraints.reduce((s, c) => s + c.cost, 0), c.cost being Number(c.cost) || 0
RECURSIVE ReduceConstraintCost(_, _, _)
ReduceConstraintCost(ctx, i, s) ==
  IF i > Len(constraintKeys) THEN s
  ELSE ReduceConstraintCost(ctx, i + 1,
         jsAdd(s, IF Has(ctx, constraintKeys[i])
                  THEN NumberOrZero(NumProp(ctx[constraintKeys[i]], "cost"))
                  ELSE 0))

\* the cost fields of one method's summary (the share fields are
\* weightedShares of the same components)
methodSummary(methodCosts, ctx, tab) ==
  LET entry == IF Has(methodCosts, tab) THEN methodCosts[tab]
               ELSE [implementationCost |-> 0, maintenanceCost |-> 0]
      implCost == NumberOrZero(NumProp(entry, "implementationCost"))
      maintCost == NumberOrZero(NumProp(entry, "maintenanceCost"))
      totalFavorable == jsAdd(implCost, maintCost)
      totalAdditional == ReduceConstraintCost(ctx, 1, 0)
  IN [id |-> tab,
      implCost |-> implCost,
      maintCost |-> maintCost,
      totalFavorable |-> totalFavorable,
      totalAdditional |-> totalAdditional,
      computedUnfavourable |-> jsAdd(totalFavorable, totalAdditional)]

\* METHOD_TABS.map((tab) => ...)
methodSummaries(values) ==
  [i \in 1..Len(MethodTabIds) |->
     methodSummary(values.methodCosts, values.contextVariables, MethodTabIds[i])]

\* the first two checks of ConsistencyBlock
ConsistencyBlock(m) ==
  [favSumOk |->
     jsAbsLt(jsSub(m.totalFavorable, jsAdd(m.implCost, m.maintCost)), SumTolerance),
   unfavSumOk |->
     jsAbsLt(jsSub(m.computedUnfavourable, jsAdd(m.totalFavorable, m.totalAdditional)),
             SumTolerance)]

\* what the user can type into a cost input: nothing, a cost, and a cost near
\* the largest double
SummaryCostInputs == {NaN, 0, 1000 * UnitsPerOne, MAX_VALUE}

\* register(`methodCosts.${activeTab}.implementationCost`, { valueAsNumber: true })
TypeImplementationCost ==
  /\ \E v \in SummaryCostInputs :
       form' = [form EXCEPT !.methodCosts[activeTab].implementationCost = v]
  /\ call' = NoCall
  /\ UNCHANGED <<initialData, store, nextId, effectDep, lastEffect, activeTab>>

\* register(`methodCosts.${activeTab}.maintenanceCost`, { valueAsNumber: true })
TypeMaintenanceCost ==
  /\ \E v \in SummaryCostInputs :
       form' = [form EXCEPT !.methodCosts[activeTab].maintenanceCost = v]
  /\ call' = NoCall
  /\ UNCHANGED <<initialData, store, nextId, effectDep, lastEffect, activeTab>>

\* register(`contextVariables.${c.key}.cost`, { valueAsNumber: true })
TypeConstraintCost ==
  /\ \E k \in {"fireRisk", "grazingPressure"}, v \in {0, 500 * UnitsPerOne, MAX_VALUE} :
       form' = [form EXCEPT !.contextVariables[k].cost = v]
  /\ call' = NoCall
  /\ UNCHANGED <<initialData, store, nextId, effectDep, lastEffect, activeTab>>

\* the Mathematical Consistency Check opened: one ConsistencyBlock a method
RenderConsistency ==
  /\ call' = [fn |-> "consistency",
              summaries |-> methodSummaries(form),
              checks |-> [i \in 1..Len(MethodTabIds) |->
                            ConsistencyBlock(methodSummaries(form)[i])]]
  /\ UNCHANGED appVars

InitSummary == InitFresh

NextSummary ==
  \/ TabChange
  \/ TypeImplementationCost
  \/ TypeMaintenanceCost
  \/ TypeConstraintCost
  \/ RenderConsistency

SpecSummary == InitSummary /\ [][NextSummary]_vars

\* C30 as stated: whatever the user entered, each method's first two lines of
\* the consistency check are reported ok.
C30_CostLinesOk ==
  call.fn = "consistency" =>
    \A i \in 1..Len(MethodTabIds) : call.checks[i].favSumOk /\ call.checks[i].unfavSumOk

\* C30 amended: the first line is reported ok exactly when the favorable
\* total is finite, and the second exactly when the unfavourable total is
\* finite; a total that overflows to Infinity is reported as a mismatch.
C30_CostLinesOkWhenFinite ==
  call.fn = "consistency" =>
    \A i \in 1..Len(MethodTabIds) :
      /\ call.checks[i].favSumOk <=> IsFinite(call.summaries[i].totalFavorable)
      /\ call.checks[i].unfavSumOk <=> IsFinite(call.summaries[i].computedUnfavourable)

\* costs and a constraint cost entered, an emptied input among them: all
\* totals finite and both lines ok
C30_Witness ==
  /\ call.fn = "consistency"
  /\ form.methodCosts.natural_regeneration.implementationCost = 1000 * UnitsPerOne
  /\ form.methodCosts.natural_regeneration.maintenanceCost = NaN
  /\ form.contextVariables.fireRisk.cost = 500 * UnitsPerOne
  /\ call.summaries[1].computedUnfavourable = 1500 * UnitsPerOne
  /\ call.checks[1].favSumOk /\ call.checks[1].unfavSumOk

\* two costs near the largest double on one tab: the favorable total is
\* Infinity and the first line is reported as a mismatch
C30_WitnessOverflow ==
  /\ call.fn = "consistency"
  /\ form.methodCosts.anr_30.implementationCost = MAX_VALUE
  /\ form.methodCosts.anr_30.maintenanceCost = MAX_VALUE
  /\ call.summaries[2].totalFavorable = Infinity
  /\ ~call.checks[2].favSumOk

\* a finite favorable total and a constraint cost that carries the
\* unfavourable total to Infinity: first line ok, second a mismatch
C30_WitnessSecondLine ==
  /\ call.fn = "consistency"
  /\ call.summaries[1].totalFavorable = MAX_VALUE
  /\ call.summaries[1].computedUnfavourable = Infinity
  /\ call.checks[1].favSumOk /\ ~call.checks[1].unfavSumOk

====
